---- MODULE Spec2Model ----
(***************************************************************************)
(* DocHelperBE: the file lifecycle of the upload directory.                *)
(*                                                                         *)
(* Strings are sequences of tokens (a token stands for one or more         *)
(* characters), so that path operations (normalize, basename, join,        *)
(* startsWith) and name formatting are computed on the text itself.        *)
(* The file system is a function from absolute path strings to the id of   *)
(* the request that last wrote the file (0: a file that was there before).  *)
(***************************************************************************)
EXTENDS Integers, Sequences, FiniteSets, TLC

VARIABLES
    now,      \* Date.now(), in milliseconds
    fs,       \* the file system: path |-> id of the request that wrote it
    reqs,     \* request id |-> the request: upload, then response
    timers,   \* pending setTimeout callbacks and pending callback-style fs calls
    dl,       \* the last download request and its answer
    ord,      \* the last ordering resolution: its inputs and its result
    job       \* one request followed through the steps of its handler, and its answer

vars == <<now, fs, reqs, timers, dl, ord, job>>

\* ---------------------------------------------------------------- bounds

MaxReq == 2
MaxTime == 1
MaxParts == 2
MaxPages == 2

\* ------------------------------------------------------- program constants

HourMs == 3600000
DayMs == 86400000

\* ----------------------------------------------------------- sequences

Last(s) == s[Len(s)]

Front(s) == SubSeq(s, 1, Len(s) - 1)

Range(s) == {s[i] : i \in DOMAIN s}

StartsWith(s, p) == Len(s) >= Len(p) /\ SubSeq(s, 1, Len(p)) = p

\* ------------------------------------------------------- path (posix)

\* path.isAbsolute
IsAbsolute(p) == Len(p) > 0 /\ p[1] = "/"

\* the segments of a path string: the token runs between "/" tokens
RECURSIVE SplitPath(_)
SplitPath(p) ==
    IF p = <<>> THEN << <<>> >>
    ELSE LET rest == SplitPath(Tail(p))
         IN IF Head(p) = "/" THEN << <<>> >> \o rest
            ELSE << <<Head(p)>> \o Head(rest) >> \o Tail(rest)

\* normalizeString: drops empty and "." segments, resolves ".." against the
\* segments kept so far; above the start, ".." is dropped for an absolute
\* path and kept for a relative one
RECURSIVE NormSegs(_, _, _)
NormSegs(segs, acc, abs) ==
    IF segs = <<>> THEN acc
    ELSE LET s == Head(segs)
         IN IF s = <<>> \/ s = <<".">> THEN NormSegs(Tail(segs), acc, abs)
            ELSE IF s = <<".", ".">>
            THEN IF acc # <<>> /\ Last(acc) # <<".", ".">>
                 THEN NormSegs(Tail(segs), Front(acc), abs)
                 ELSE IF abs THEN NormSegs(Tail(segs), acc, abs)
                 ELSE NormSegs(Tail(segs), Append(acc, s), abs)
            ELSE NormSegs(Tail(segs), Append(acc, s), abs)

RECURSIVE JoinSegs(_)
JoinSegs(segs) ==
    IF segs = <<>> THEN <<>>
    ELSE IF Len(segs) = 1 THEN Head(segs)
    ELSE Head(segs) \o <<"/">> \o JoinSegs(Tail(segs))

\* path.normalize
Normalize(p) ==
    IF p = <<>> THEN <<".">>
    ELSE LET abs == IsAbsolute(p)
             trail == Last(p) = "/"
             body == JoinSegs(NormSegs(SplitPath(p), <<>>, abs))
         IN IF body = <<>>
            THEN (IF abs THEN <<"/">> ELSE IF trail THEN <<".", "/">> ELSE <<".">>)
            ELSE (IF abs THEN <<"/">> ELSE <<>>) \o body
                 \o (IF trail THEN <<"/">> ELSE <<>>)

\* path.join(a, b)
Join(a, b) ==
    IF a = <<>> THEN Normalize(b)
    ELSE IF b = <<>> THEN Normalize(a)
    ELSE Normalize(a \o <<"/">> \o b)

RECURSIVE StripTrailingSlashes(_)
StripTrailingSlashes(p) ==
    IF p # <<>> /\ Last(p) = "/" THEN StripTrailingSlashes(Front(p)) ELSE p

\* path.basename: the last segment, trailing separators ignored
Basename(p) == Last(SplitPath(StripTrailingSlashes(p)))

\* path.resolve of a path that is already absolute
Resolve(p) == StripTrailingSlashes(Normalize(p))

\* ------------------------------------------------------ upload directory

AppDir == <<"/", "app">>

uploadDir == Join(AppDir \o <<"/", "src">>, <<".", ".", "/", "up">>)

\* ----------------------------------------------------- order resolution

DigitVal(c) ==
    CASE c = "0" -> 0 [] c = "1" -> 1 [] c = "2" -> 2 [] c = "3" -> 3
      [] c = "4" -> 4 [] c = "5" -> 5 [] c = "6" -> 6 [] c = "7" -> 7
      [] c = "8" -> 8 [] c = "9" -> 9 [] c = "a" -> 10 [] c = "b" -> 11
      [] c = "c" -> 12 [] c = "d" -> 13 [] c = "e" -> 14 [] c = "f" -> 15
      [] OTHER -> 99

NaN == [ok |-> FALSE, val |-> 0]

RECURSIVE SkipSpace(_)
SkipSpace(s) == IF s # <<>> /\ Head(s) = " " THEN SkipSpace(Tail(s)) ELSE s

\* the value of the longest run of digits of the radix at the head of s;
\* seen tells whether a digit was read
RECURSIVE DigitRun(_, _, _, _)
DigitRun(s, radix, acc, seen) ==
    IF s # <<>> /\ DigitVal(Head(s)) < radix
    THEN DigitRun(Tail(s), radix, acc * radix + DigitVal(Head(s)), TRUE)
    ELSE [ok |-> seen, val |-> acc]

\* parseInt(string): leading blanks, an optional sign, an optional 0x, digits
ParseInt(str) ==
    LET s0 == SkipSpace(str)
        neg == s0 # <<>> /\ Head(s0) = "-"
        s1 == IF s0 # <<>> /\ Head(s0) \in {"-", "+"} THEN Tail(s0) ELSE s0
        hex == Len(s1) >= 2 /\ s1[1] = "0" /\ s1[2] \in {"x", "X"}
        s2 == IF hex THEN Tail(Tail(s1)) ELSE s1
        run == DigitRun(s2, IF hex THEN 16 ELSE 10, 0, FALSE)
    IN IF run.ok THEN [ok |-> TRUE, val |-> IF neg THEN 0 - run.val ELSE run.val]
       ELSE NaN

\* req.body[`order_${k}`] of a field that was not sent: String(undefined)
Undefined == <<"undefined">>

\* a field that is an integer and nothing else: an optional sign and digits
IsWholeInteger(field) ==
    LET digits == IF field # <<>> /\ Head(field) \in {"-", "+"} THEN Tail(field) ELSE field
    IN digits # <<>> /\ \A i \in DOMAIN digits : DigitVal(digits[i]) < 10

\* the order index of a loop that reads only such fields and takes the
\* arrival position for every other
OrderIndexWhole(k, field) ==
    IF IsWholeInteger(field) THEN ParseInt(field).val ELSE k - 1

\* order: isNaN(orderIndex) ? orderedFiles.length : orderIndex, for the file
\* at arrival position k (from 1; the code counts from 0)
OrderIndex(k, field) ==
    LET orderIndex == ParseInt(field)
    IN IF orderIndex.ok THEN orderIndex.val ELSE k - 1

\* Array.prototype.sort with (a, b) => a.order - b.order: a stable sort
RECURSIVE InsertSorted(_, _)
InsertSorted(sorted, e) ==
    IF sorted = <<>> THEN <<e>>
    ELSE IF Last(sorted).order <= e.order THEN Append(sorted, e)
    ELSE Append(InsertSorted(Front(sorted), e), Last(sorted))

RECURSIVE SortByOrder(_)
SortByOrder(s) ==
    IF s = <<>> THEN <<>> ELSE InsertSorted(SortByOrder(Front(s)), Last(s))

\* the files in the order they arrived, whatever their fields
ArrivalOrder(n, fields) == [i \in 1..n |-> i]

\* orderedFiles after the sort, as arrival positions
OrderedFiles(n, fields) ==
    LET entries == [k \in 1..n |-> [file |-> k, order |-> OrderIndex(k, fields[k])]]
        sorted == SortByOrder(entries)
    IN [i \in 1..n |-> sorted[i].file]

\* ------------------------------------------------------------ file system

Exists(f, p) == p \in DOMAIN f

\* writeFile, copyFile, createWriteStream: creates the file or replaces it
WriteAll(f, P, r) == [p \in DOMAIN f \cup P |-> IF p \in P THEN r ELSE f[p]]

\* an unlink that removes nothing
UnlinkNone(f, P) == f

\* unlink of each path, a missing file ignored (.catch)
UnlinkAll(f, P) == [p \in DOMAIN f \ P |-> f[p]]

\* a directory is entered under its path followed by the separator
DirEntry(d) == d \o <<"/">>

\* fs.rm(dir, {recursive, force}): the directory and everything below it
RemoveTree(f, d) == [p \in {q \in DOMAIN f : ~StartsWith(q, DirEntry(d))} |-> f[p]]

IsDirectory(f, p) ==
    LET d == StripTrailingSlashes(p)
    IN \E q \in DOMAIN f : StartsWith(q, DirEntry(d))

\* fsp.access(path, R_OK): a file, or a directory
Accessible(f, p) == Exists(f, p) \/ IsDirectory(f, p)

\* fsp.readdir(uploadDir): the names of its direct entries
Readdir(f) ==
    {Head(SplitPath(SubSeq(q, Len(uploadDir) + 2, Len(q)))) :
        q \in {x \in DOMAIN f : StartsWith(x, DirEntry(uploadDir)) /\ Len(x) > Len(uploadDir) + 1}}

\* ------------------------------------------------------------------ names

\* filename: file.fieldname + '-' + Date.now() + path.extname(file.originalname)
StorageName(fieldname, t, ext) == <<fieldname, "-", ToString(t)>> \o ext

\* the path multer stores the part at: destination joined with filename
StoragePath(fieldname, t, ext) == Join(uploadDir, StorageName(fieldname, t, ext))

\* `${prefix}-${Date.now()}.${ext}` in the upload directory
OutputPath(prefix, t, ext) == Join(uploadDir, <<prefix, "-", ToString(t)>> \o ext)

\* `split-page-${i}-${Date.now()}.pdf`, `page-${i}-${timestamp}.${imageFormat}`
PageName(prefix, i, t, ext) == <<prefix, "-", ToString(i), "-", ToString(t)>> \o ext

\* ---------------------------------------------------------------- requests

ReqIds == 1..MaxReq

Ops == {"ocr", "merge", "split", "compress", "imageToPDF", "pdfToImage",
        "protect", "unprotect"}

\* the multipart field each route reads (upload.single / upload.array)
FieldOf(op) ==
    CASE op = "ocr" -> "file"
      [] op = "merge" -> "pdfs"
      [] op = "imageToPDF" -> "images"
      [] OTHER -> "pdf"

\* the numbers of parts a client may send on the route
PartCounts(op) == IF op \in {"merge", "imageToPDF"} THEN 0..MaxParts ELSE 0..1

\* the files clients send: path.extname(file.originalname) and file.mimetype
ClientFiles ==
    {[ext |-> <<".pdf">>, mimetype |-> <<"application/", "pdf">>],
     [ext |-> <<".png">>, mimetype |-> <<"image/", "png">>]}

\* file.mimetype.includes('pdf')
IsPdf(file) == "pdf" \in Range(file.mimetype)

\* file.mimetype.startsWith('image/')
IsImage(file) == StartsWith(file.mimetype, <<"image/">>)

\* a text field of req.body: sent or not, and its characters
BodyField(sent, text) == [sent |-> sent, text |-> text]

NotSent == BodyField(FALSE, <<>>)

\* a field that only has to be sent to count
IsSent(field) == field.sent

\* the field as a condition: undefined and the empty string are falsy
Truthy(field) == field.sent /\ field.text # <<>>

\* req.body.field || fallback
OrElse(field, fallback) == IF field.sent /\ field.text # <<>> THEN field.text ELSE fallback

\* req.body.password as clients send it, to the routes that read it
SentPasswords == {NotSent, BodyField(TRUE, <<>>), BodyField(TRUE, <<"pw">>)}

PasswordsOf(op) == IF op \in {"protect", "unprotect"} THEN SentPasswords ELSE {NotSent}

NoReq ==
    [op |-> "", files |-> <<>>, phase |-> "idle", status |-> 0, reason |-> "",
     outs |-> {}, left |-> {}, worked |-> FALSE, order |-> <<>>, password |-> NotSent]

Paths(files) == {files[k].path : k \in DOMAIN files}

\* res.status(status).json(...): the answer, with what the store held of the
\* request's inputs when it was sent
Respond(r, status, reason, outs, worked, order, fsAfter) ==
    reqs' = [reqs EXCEPT ![r] =
                [@ EXCEPT !.phase = "done", !.status = status, !.reason = reason,
                          !.outs = outs, !.worked = worked, !.order = order,
                          !.left = {p \in Paths(reqs[r].files) : Exists(fsAfter, p)}]]

Pending(r, op) == reqs[r].phase = "uploaded" /\ reqs[r].op = op

\* ------------------------------------------------------------ the clock

Tick ==
    /\ now < MaxTime
    /\ now' = now + 1
    /\ UNCHANGED <<fs, reqs, timers, dl, ord, job>>

\* ---------------------------------------------------------- Upload Intake

\* the times the parts are stored at: each at the time of the one before it
\* or later
StoreTimes(n) ==
    {ts \in [1..n -> now..MaxTime] :
        /\ n > 0 => ts[1] = now
        /\ \A k \in 1..(n - 1) : ts[k] <= ts[k + 1] /\ ts[k + 1] <= ts[k] + 1}

\* multer: stores every part of the request, then calls the handler
Upload(r, op) ==
    /\ reqs[r].phase = "idle"
    /\ \A q \in ReqIds : q < r => reqs[q].phase # "idle"
    /\ \E n \in PartCounts(op) : \E ts \in StoreTimes(n) : \E sent \in [1..n -> ClientFiles] :
       \E password \in PasswordsOf(op) :
        LET files == [k \in 1..n |->
                        [path |-> StoragePath(FieldOf(op), ts[k], sent[k].ext),
                         mimetype |-> sent[k].mimetype]]
        IN /\ fs' = WriteAll(fs, Paths(files), r)
           /\ reqs' = [reqs EXCEPT ![r] = [NoReq EXCEPT !.op = op, !.files = files,
                                                       !.phase = "uploaded",
                                                       !.password = password]]
           /\ now' = IF n = 0 THEN now ELSE ts[n]
    /\ UNCHANGED <<timers, dl, ord, job>>

\* ------------------------------------------------- deferred and pending work

\* setTimeout(cleanup, delay), or a callback-style fs call whose completion
\* nothing awaits (delay 0)
Timer(r, delay, files, tree) == [by |-> r, delay |-> delay, files |-> files, tree |-> tree]

NoTree == <<>>

TimerFire(t) ==
    /\ t \in timers
    /\ timers' = timers \ {t}
    /\ fs' = UnlinkAll(IF t.tree = NoTree THEN fs ELSE RemoveTree(fs, t.tree), t.files)
    /\ UNCHANGED <<now, reqs, dl, ord, job>>

\* a callback-style call started by the handler: done when the answer is sent,
\* or still pending then
Started(r, files, tree, done, f) ==
    IF done
    THEN [fs |-> UnlinkAll(IF tree = NoTree THEN f ELSE RemoveTree(f, tree), files),
          timers |-> {}]
    ELSE [fs |-> f, timers |-> {Timer(r, 0, files, tree)}]

\* -------------------------------------------------------------------- OCR

extractText(r) ==
    /\ Pending(r, "ocr")
    /\ LET files == reqs[r].files
       IN IF Len(files) = 0
          THEN /\ Respond(r, 400, "presence", {}, FALSE, <<>>, fs)
               /\ UNCHANGED <<fs, timers>>
          ELSE \E recognized \in BOOLEAN : \E done \in BOOLEAN :
               LET delfile == Started(r, {files[1].path}, NoTree, done, fs)
               IN /\ recognized => Exists(fs, files[1].path)
                  /\ fs' = delfile.fs
                  /\ timers' = timers \cup delfile.timers
                  /\ Respond(r, IF recognized THEN 200 ELSE 500, "", {}, TRUE, <<>>, delfile.fs)
    /\ UNCHANGED <<now, dl, ord, job>>

\* ------------------------------------------------------------------ merge

\* the resolved orders of n files, over the order fields clients send
OrderFields == {Undefined, <<"0">>, <<"1">>}

ResolvedOrders == [n \in 0..(MaxParts + 1) |-> {OrderedFiles(n, f) : f \in [1..n -> OrderFields]}]

\* what PDFDocument.load makes of a stored file: -1 when it throws, else the
\* page count
Docs == (-1)..MaxPages

\* parts stored at one path hold the same bytes
SameBytes(files, docs) == \A i, j \in DOMAIN files : files[i].path = files[j].path => docs[i] = docs[j]

\* why the loop of mergePDFs throws at the part, "" when it does not
MergeFailure(f, file, doc) ==
    IF ~IsPdf(file) THEN "mime"
    ELSE IF ~Exists(f, file.path) THEN "read"
    ELSE IF doc = -1 THEN "load"
    ELSE IF doc = 0 THEN "empty"
    ELSE ""

\* tempFiles when the loop throws at position j of the order: the files read
\* before, and the failing file when its readFile had succeeded
MergeTempFiles(files, order, j, why) ==
    {files[order[i]].path : i \in 1..(j - 1)}
        \cup (IF why \in {"load", "empty"} THEN {files[order[j]].path} ELSE {})

\* no file at all
NoneSent(n) == n = 0

\* !req.files || req.files.length < 2
TooFew(n) == n < 2

mergePDFs(r) ==
    /\ Pending(r, "merge")
    /\ LET files == reqs[r].files
           n == Len(files)
       IN IF TooFew(n)
          THEN /\ Respond(r, 400, "presence", {}, FALSE, <<>>, fs)
               /\ UNCHANGED fs
          ELSE \E order \in ResolvedOrders[n] : \E docs \in [1..n -> Docs] :
               LET why == [i \in 1..n |-> MergeFailure(fs, files[order[i]], docs[order[i]])]
                   bad == {i \in 1..n : why[i] # ""}
                   j == IF bad = {} THEN 0 ELSE CHOOSE i \in bad : \A k \in bad : i <= k
                   outputPath == OutputPath("merged", now, <<".pdf">>)
               IN /\ SameBytes(files, docs)
                  /\ IF j # 0
                     THEN LET after == UnlinkAll(fs, MergeTempFiles(files, order, j, why[j]))
                          IN /\ fs' = after
                             /\ Respond(r, 500, why[j], {}, j > 1, <<>>, after)
                     ELSE \E writeOk \in BOOLEAN :
                          IF ~writeOk
                          THEN LET after == UnlinkAll(fs, Paths(files))
                               IN /\ fs' = after
                                  /\ Respond(r, 500, "write", {}, TRUE, <<>>, after)
                          ELSE LET after == WriteAll(fs, {outputPath}, r)
                               IN /\ fs' = after
                                  /\ Respond(r, 200, "", {outputPath}, TRUE, order, after)
    /\ UNCHANGED <<now, timers, dl, ord, job>>

\* ------------------------------------------------------------------ split

splitPDF(r) ==
    /\ Pending(r, "split")
    /\ LET files == reqs[r].files
       IN IF Len(files) = 0
          THEN /\ Respond(r, 400, "presence", {}, FALSE, <<>>, fs)
               /\ UNCHANGED <<fs, timers>>
          ELSE LET file == files[1]
                   gone == UnlinkAll(fs, {file.path})
               IN IF ~IsPdf(file)
                  THEN /\ fs' = gone
                       /\ Respond(r, 400, "mime", {}, FALSE, <<>>, gone)
                       /\ UNCHANGED timers
                  ELSE IF ~Exists(fs, file.path)
                  THEN /\ Respond(r, 400, "access", {}, FALSE, <<>>, fs)
                       /\ UNCHANGED <<fs, timers>>
                  ELSE \E pageCount \in Docs : \E written \in SUBSET (1..MaxPages) :
                       \E started \in SUBSET ((1..MaxPages) \ written) :
                       /\ written \cup started \subseteq 1..pageCount
                       /\ pageCount <= 1 => written = {} /\ started = {}
                       /\ IF pageCount = -1
                          THEN /\ fs' = gone
                               /\ Respond(r, 400, "load", {}, TRUE, <<>>, gone)
                               /\ UNCHANGED timers
                          ELSE IF pageCount <= 1
                          THEN /\ fs' = gone
                               /\ Respond(r, 400, "pages", {}, TRUE, <<>>, gone)
                               /\ UNCHANGED timers
                          ELSE LET pages == {Join(uploadDir, PageName("split-page", i, now, <<".pdf">>)) :
                                                i \in written}
                                   \* writeFile created the file and then failed
                                   stubs == {Join(uploadDir, PageName("split-page", i, now, <<".pdf">>)) :
                                                i \in started}
                                   tempFiles == {file.path} \cup pages
                                   after == WriteAll(fs, pages \cup stubs, r)
                                   failed == UnlinkAll(after, tempFiles)
                               IN IF written = {}
                                  THEN /\ fs' = failed
                                       /\ Respond(r, 500, "none", {}, TRUE, <<>>, failed)
                                       /\ UNCHANGED timers
                                  ELSE /\ fs' = after
                                       /\ timers' = timers \cup {Timer(r, HourMs, tempFiles, NoTree)}
                                       /\ Respond(r, 200, "", pages, TRUE, <<>>, after)
    /\ UNCHANGED <<now, dl, ord, job>>

\* --------------------------------------------------------------- compress

\* req.body.compressionLevel || 'medium'
CompressionLevels == {"low", "medium", "high"}

\* the zlib pass of level 'high': its output adopted, rejected by the size
\* check, or the pass failing after temp-<now>.bin was created
ZlibOutcomes == {"adopted", "rejected", "failed"}

compressPDF(r) ==
    /\ Pending(r, "compress")
    /\ LET files == reqs[r].files
       IN IF Len(files) = 0
          THEN /\ Respond(r, 400, "presence", {}, FALSE, <<>>, fs)
               /\ UNCHANGED fs
          ELSE LET file == files[1]
                   gone == UnlinkAll(fs, {file.path})
                   outputPath == OutputPath("compressed", now, <<".pdf">>)
                   tempCompressedPath == OutputPath("temp", now, <<".bin">>)
               IN IF ~IsPdf(file)
                  THEN /\ fs' = gone
                       /\ Respond(r, 400, "mime", {}, FALSE, <<>>, gone)
                  ELSE IF ~Exists(fs, file.path)
                  THEN \* stat throws, the fallback copy throws
                       /\ fs' = gone
                       /\ Respond(r, 500, "fallback", {}, FALSE, <<>>, gone)
                  ELSE \E failedCopies \in 0..3 : \E compressionLevel \in CompressionLevels :
                       \E zlib \in ZlibOutcomes :
                       /\ (failedCopies # 0 \/ compressionLevel # "high") => zlib = "rejected"
                       /\ failedCopies # 0 => compressionLevel = "medium"
                       /\ IF failedCopies = 3
                          THEN /\ fs' = gone
                               /\ Respond(r, 500, "fallback", {}, TRUE, <<>>, gone)
                          ELSE LET kept == IF zlib = "failed" THEN {tempCompressedPath} ELSE {}
                                   after == UnlinkAll(WriteAll(fs, {outputPath} \cup kept, r),
                                                      {file.path})
                               IN /\ fs' = after
                                  /\ Respond(r, 200, IF failedCopies = 0 THEN "" ELSE "copy",
                                             {outputPath}, TRUE, <<>>, after)
    /\ UNCHANGED <<now, timers, dl, ord, job>>

\* ------------------------------------------------------------ image to PDF

\* what becomes of an image: drawn on its page, sharp's metadata() throwing
\* (before the file is tracked), or pdfDoc.image throwing after addPage
ImageOutcomes == {"drawn", "meta", "draw"}

\* how the output's write stream ends: 'finish'; 'error' once the handler
\* listens for it; or 'error' while the handler still awaits the images, before
\* it listens (the file could not be opened), which nothing will tell it
StreamOutcomes == {"finish", "error", "unheard"}

\* the handler waits for an event that will not come: no answer is sent
Waits(r) == reqs' = [reqs EXCEPT ![r] = [@ EXCEPT !.phase = "waiting", !.worked = TRUE]]

imageToPDF(r) ==
    /\ Pending(r, "imageToPDF")
    /\ LET files == reqs[r].files
           n == Len(files)
       IN IF n = 0
          THEN /\ Respond(r, 400, "presence", {}, FALSE, <<>>, fs)
               /\ UNCHANGED fs
          ELSE IF \E k \in 1..n : ~IsImage(files[k])
          THEN LET gone == UnlinkAll(fs, Paths(files))
               IN /\ fs' = gone
                  /\ Respond(r, 400, "mime", {}, FALSE, <<>>, gone)
          ELSE \E order \in ResolvedOrders[n] : \E images \in [1..n -> ImageOutcomes] :
               \E stream \in StreamOutcomes :
               LET outputPath == OutputPath("image-pdf", now, <<".pdf">>)
                   tempFiles == {files[k].path : k \in {i \in 1..n : images[i] # "meta"}}
                   drawn == SelectSeq(order, LAMBDA k : images[k] = "drawn")
                   created == WriteAll(fs, {outputPath}, r)
               IN /\ \A k \in 1..n : ~Exists(fs, files[k].path) => images[k] = "meta"
                  /\ \A i, k \in 1..n : files[i].path = files[k].path => images[i] = images[k]
                  /\ IF stream = "unheard"
                     THEN /\ UNCHANGED fs
                          /\ Waits(r)
                     ELSE IF stream = "finish"
                     THEN LET after == UnlinkAll(created, tempFiles)
                          IN /\ fs' = after
                             /\ Respond(r, 200, "", {outputPath}, TRUE, drawn, after)
                     ELSE LET after == UnlinkAll(created, tempFiles \cup {outputPath})
                          IN /\ fs' = after
                             /\ Respond(r, 500, "stream", {}, TRUE, <<>>, after)
    /\ UNCHANGED <<now, timers, dl, ord, job>>

\* ------------------------------------------------------------ PDF to image

\* (req.body.imageFormat || 'png').toLowerCase(), as the extension
ImageFormats == {<<".png">>}

\* the page numbers of S as the loops push them: ascending
RECURSIVE Ascending(_)
Ascending(S) ==
    IF S = {} THEN <<>>
    ELSE LET least == CHOOSE i \in S : \A k \in S : i <= k
         IN <<least>> \o Ascending(S \ {least})

pdfToImage(r) ==
    /\ Pending(r, "pdfToImage")
    /\ LET files == reqs[r].files
       IN IF Len(files) = 0
          THEN /\ Respond(r, 400, "presence", {}, FALSE, <<>>, fs)
               /\ UNCHANGED <<fs, timers>>
          ELSE LET file == files[1]
                   gone == UnlinkAll(fs, {file.path})
               IN IF ~IsPdf(file)
                  THEN /\ fs' = gone
                       /\ Respond(r, 400, "mime", {}, FALSE, <<>>, gone)
                       /\ UNCHANGED timers
                  ELSE IF ~Exists(fs, file.path)
                  THEN /\ Respond(r, 400, "access", {}, FALSE, <<>>, fs)
                       /\ UNCHANGED <<fs, timers>>
                  ELSE \E pageCount \in Docs : \E imageFormat \in ImageFormats :
                       \E rendered \in SUBSET (1..pageCount) :
                       \E zipOk \in (IF rendered = {} THEN {TRUE} ELSE BOOLEAN) :
                       \E parsed \in (IF rendered # {} /\ zipOk THEN {{}} ELSE SUBSET (1..pageCount)) :
                       \E fallbackZipOk \in (IF parsed = {} THEN {TRUE} ELSE BOOLEAN) :
                       \E done \in (IF pageCount < 1 \/ (rendered # {} /\ zipOk)
                                       \/ (parsed # {} /\ fallbackZipOk)
                                    THEN {TRUE} ELSE BOOLEAN) :
                       LET timestamp == now
                           batchDir == Join(uploadDir, <<"pdf-images", "-", ToString(timestamp)>>)
                           zipPath == OutputPath("pdf-images", timestamp, <<".zip">>)
                           Page(i) == Join(batchDir, PageName("page", i, timestamp, imageFormat))
                           raster == {Page(i) : i \in rendered}
                           text == {Page(i) : i \in parsed}
                           rasterDone == rendered # {} /\ zipOk
                           \* the zip's write stream is opened once a page was rendered
                           zips == IF rendered # {} \/ parsed # {} THEN {zipPath} ELSE {}
                           tempFiles == {file.path} \cup raster
                       IN IF pageCount = -1
                             THEN /\ fs' = gone
                                  /\ Respond(r, 400, "load", {}, TRUE, <<>>, gone)
                                  /\ UNCHANGED timers
                             ELSE IF pageCount = 0
                             THEN /\ fs' = gone
                                  /\ Respond(r, 400, "pages", {}, TRUE, <<>>, gone)
                                  /\ UNCHANGED timers
                             ELSE IF rasterDone
                             THEN LET after == WriteAll(fs, {DirEntry(batchDir), zipPath} \cup raster, r)
                                  IN /\ fs' = after
                                     /\ timers' = timers \cup
                                            {Timer(r, HourMs, {file.path}, NoTree),
                                             Timer(r, DayMs, {zipPath}, batchDir)}
                                     /\ Respond(r, 200, "", raster \cup {zipPath}, TRUE,
                                                Ascending(rendered), after)
                             ELSE IF parsed # {} /\ fallbackZipOk
                             THEN LET after == WriteAll(fs, {DirEntry(batchDir), zipPath} \cup raster \cup text, r)
                                  IN /\ fs' = after
                                     /\ Respond(r, 200, "note", raster \cup text \cup {zipPath},
                                                TRUE, Ascending(rendered) \o Ascending(parsed), after)
                                     /\ UNCHANGED timers
                             ELSE LET wrote == WriteAll(fs, {DirEntry(batchDir)} \cup zips \cup raster \cup text, r)
                                      rm == Started(r, {}, batchDir, done, UnlinkAll(wrote, tempFiles))
                                  IN /\ fs' = rm.fs
                                     /\ timers' = timers \cup rm.timers
                                     /\ Respond(r, 500, "failed", {}, TRUE, <<>>, rm.fs)
    /\ UNCHANGED <<now, dl, ord, job>>

\* ------------------------------------------------------ protect, unprotect

\* how the qpdf subprocess ends: exit 0, or an error whose stderr does or
\* does not mention 'password'
QpdfOutcomes == {"ok", "error", "password"}

\* the handler of protectPDF and of unprotectPDF: prefix names the output,
\* authStatus is the status answered to a password error
Qpdf(r, op, prefix, authStatus) ==
    /\ Pending(r, op)
    /\ LET files == reqs[r].files
       IN IF Len(files) = 0
          THEN /\ Respond(r, 400, "presence", {}, FALSE, <<>>, fs)
               /\ UNCHANGED fs
          ELSE LET inputFile == files[1].path
                   gone == UnlinkAll(fs, {inputFile})
                   outputPath == OutputPath(prefix, now, <<".pdf">>)
               IN IF ~IsPdf(files[1])
                  THEN /\ fs' = gone
                       /\ Respond(r, 400, "mime", {}, FALSE, <<>>, gone)
                  ELSE \E qpdf \in QpdfOutcomes :
                       /\ ~Truthy(reqs[r].password) => qpdf = "error"
                       /\ ~Exists(fs, inputFile) => qpdf = "error"
                       /\ IF ~Truthy(reqs[r].password)
                          THEN /\ fs' = gone
                               /\ Respond(r, 400, "password", {}, FALSE, <<>>, gone)
                          ELSE IF qpdf = "ok"
                          THEN LET after == UnlinkAll(WriteAll(fs, {outputPath}, r), {inputFile})
                               IN /\ fs' = after
                                  /\ Respond(r, 200, "", {outputPath}, TRUE, <<>>, after)
                          ELSE LET after == UnlinkAll(fs, {inputFile, outputPath})
                               IN /\ fs' = after
                                  /\ Respond(r, IF qpdf = "password" THEN authStatus ELSE 500,
                                             IF qpdf = "password" THEN "qpdf-password"
                                             ELSE "qpdf-error", {}, TRUE, <<>>, after)
    /\ UNCHANGED <<now, timers, dl, ord, job>>

protectPDF(r) == Qpdf(r, "protect", "protected", 500)

unprotectPDF(r) == Qpdf(r, "unprotect", "unprotected", 401)

\* --------------------------------------------------------------- download

\* tokens that hold a percent escape, and what they decode to; "%" is a
\* percent sign that starts no escape
DecodeToken(c) ==
    CASE c = "%2e" -> "."
      [] c = "%2f" -> "/"
      [] OTHER -> c

\* decodeURIComponent: [ok |-> FALSE] stands for the URIError it throws
DecodeURIComponent(str) ==
    IF "%" \in Range(str) THEN [ok |-> FALSE, val |-> <<>>]
    ELSE [ok |-> TRUE, val |-> [i \in DOMAIN str |-> DecodeToken(str[i])]]

\* req.query.file: sent or not, and its text as express hands it over
Query(sent, file) == [sent |-> sent, file |-> file]

\* the path downloadFile resolves the reference to, before any file is looked up
ResolveReference(filePath) ==
    IF IsAbsolute(filePath)
    THEN LET absolutePath == Normalize(filePath)
             uploadsDir == Resolve(uploadDir)
         IN IF ~StartsWith(absolutePath, uploadsDir)
            THEN Join(uploadDir, Basename(filePath))
            ELSE absolutePath
    ELSE Join(uploadDir, filePath)

\* the path after the fallback scan of the upload directory by basename
FallbackScan(f, filePath, absolutePath) ==
    IF Basename(filePath) \in Readdir(f)
    THEN Join(uploadDir, Basename(filePath))
    ELSE absolutePath

NoFile == <<>>

Answer(q, status, served) == [query |-> q, status |-> status, served |-> served]

\* res.download(absolutePath): a directory ends in the error callback
Download(q, f, absolutePath) ==
    IF Exists(f, absolutePath) THEN Answer(q, 200, absolutePath)
    ELSE Answer(q, 500, NoFile)

\* a download that consumes what it serves: the served file leaves the store
downloadOnce(q) ==
    /\ LET decoded == DecodeURIComponent(IF q.sent THEN q.file ELSE Undefined)
           filePath == decoded.val
           absolutePath == ResolveReference(filePath)
           found == FallbackScan(fs, filePath, absolutePath)
           answer == IF ~decoded.ok THEN Answer(q, 500, NoFile)
                     ELSE IF filePath = <<>> THEN Answer(q, 400, NoFile)
                     ELSE IF Accessible(fs, absolutePath) THEN Download(q, fs, absolutePath)
                     ELSE IF Accessible(fs, found) THEN Download(q, fs, found)
                     ELSE Answer(q, 404, NoFile)
       IN /\ dl' = answer
          /\ fs' = UnlinkAll(fs, {answer.served})
    /\ UNCHANGED <<now, reqs, timers, ord, job>>

downloadFile(q) ==
    /\ LET decoded == DecodeURIComponent(IF q.sent THEN q.file ELSE Undefined)
           filePath == decoded.val
           absolutePath == ResolveReference(filePath)
           found == FallbackScan(fs, filePath, absolutePath)
       IN dl' = IF ~decoded.ok THEN Answer(q, 500, NoFile)
                ELSE IF filePath = <<>> THEN Answer(q, 400, NoFile)
                ELSE IF Accessible(fs, absolutePath) THEN Download(q, fs, absolutePath)
                ELSE IF Accessible(fs, found) THEN Download(q, fs, found)
                ELSE Answer(q, 404, NoFile)
    /\ UNCHANGED <<now, fs, reqs, timers, ord, job>>

\* the references clients ask for
Queries ==
    {Query(FALSE, <<>>),
     Query(TRUE, <<>>),
     Query(TRUE, <<"%">>),
     Query(TRUE, <<"merged-0.pdf">>),
     Query(TRUE, uploadDir \o <<"/", "merged-0.pdf">>),
     Query(TRUE, <<"old", "/", "merged-0.pdf">>),
     Query(TRUE, <<"pdf-images-0", "/", "page-1-0.png">>),
     Query(TRUE, <<"s">>),
     Query(TRUE, <<".", ".", "/", "s">>),
     Query(TRUE, <<"%2e", "%2e", "%2f", "s">>),
     Query(TRUE, AppDir \o <<"/", "s">>),
     Query(TRUE, AppDir \o <<"/", "up", "x", "/", "s">>),
     Query(TRUE, uploadDir \o <<"/", ".", ".", "/", "s">>),
     Query(TRUE, AppDir \o <<"/", "t">>),
     Query(TRUE, uploadDir),
     Query(TRUE, <<".">>)}

\* ------------------------------------------------------------ the program

\* files of the machine that are not uploads: they are there from the start
OutsideFiles == {AppDir \o <<"/", "s">>, AppDir \o <<"/", "up", "x", "/", "s">>}

\* the file system at start: the upload directory exists and is empty
FreshFs == [p \in OutsideFiles \cup {DirEntry(uploadDir)} |-> 0]

Init ==
    /\ now = 0
    /\ fs = FreshFs
    /\ reqs = [r \in ReqIds |-> NoReq]
    /\ timers = {}
    /\ dl = <<>>
    /\ job = <<>>
    /\ ord = <<>>

Next ==
    \/ Tick
    \/ \E r \in ReqIds : \E op \in Ops : Upload(r, op)
    \/ \E t \in timers : TimerFire(t)
    \/ \E r \in ReqIds : extractText(r)
    \/ \E r \in ReqIds : mergePDFs(r)
    \/ \E r \in ReqIds : splitPDF(r)
    \/ \E r \in ReqIds : compressPDF(r)
    \/ \E r \in ReqIds : imageToPDF(r)
    \/ \E r \in ReqIds : pdfToImage(r)
    \/ \E r \in ReqIds : protectPDF(r)
    \/ \E r \in ReqIds : unprotectPDF(r)

Spec == Init /\ [][Next]_vars

\* ------------------------------------------- downloads from a given store

\* artifacts the store may hold when a download arrives
StoredArtifacts ==
    {uploadDir \o <<"/", "merged-0.pdf">>,
     uploadDir \o <<"/", "s">>,
     uploadDir \o <<"/", "pdf-images-0", "/", "page-1-0.png">>}

InitDownload ==
    /\ now = 0
    /\ fs \in {[p \in DOMAIN FreshFs \cup S |-> 0] : S \in SUBSET StoredArtifacts}
    /\ reqs = [r \in ReqIds |-> NoReq]
    /\ timers = {}
    /\ dl = <<>>
    /\ job = <<>>
    /\ ord = <<>>

NextDownload == \E q \in Queries : downloadFile(q)

SpecDownload == InitDownload /\ [][NextDownload]_vars

\* --------------------------------------------- the order of the inputs

MaxFiles == 3

\* what a client may send as an order field
SentFields ==
    {Undefined, <<"0">>, <<"1">>, <<"2">>, <<"-", "1">>, <<"1", ".", "5">>,
     <<"2", "a">>, <<"a">>, <<"0", "x", "2">>}

NoOrder == [op |-> "", fields |-> <<>>, images |-> <<>>, pages |-> <<>>, done |-> FALSE]

\* a request as it reaches the ordering loop: mergePDFs has at least two
\* files, imageToPDF at least one, each image drawn or skipped
InitOrder ==
    /\ now = 0
    /\ fs = FreshFs
    /\ reqs = [r \in ReqIds |-> NoReq]
    /\ timers = {}
    /\ dl = <<>>
    /\ job = <<>>
    /\ \E n \in 1..MaxFiles : \E f \in [1..n -> SentFields] :
       \/ /\ n >= 2
          /\ ord = [NoOrder EXCEPT !.op = "merge", !.fields = f]
       \/ \E i \in [1..n -> {"drawn", "meta"}] :
          ord = [NoOrder EXCEPT !.op = "imageToPDF", !.fields = f, !.images = i]

\* mergePDFs: every file of orderedFiles adds its pages, in that order
mergeOrder ==
    /\ ord.op = "merge" /\ ~ord.done
    /\ ord' = [ord EXCEPT !.done = TRUE,
                          !.pages = OrderedFiles(Len(ord.fields), ord.fields)]
    /\ UNCHANGED <<now, fs, reqs, timers, dl, job>>

\* imageToPDF: every file of orderedFiles whose metadata is read adds a page
imageOrder ==
    /\ ord.op = "imageToPDF" /\ ~ord.done
    /\ ord' = [ord EXCEPT !.done = TRUE,
                          !.pages = SelectSeq(OrderedFiles(Len(ord.fields), ord.fields),
                                              LAMBDA k : ord.images[k] = "drawn")]
    /\ UNCHANGED <<now, fs, reqs, timers, dl, job>>

NextOrder == mergeOrder \/ imageOrder

SpecOrder == InitOrder /\ [][NextOrder]_vars

\* ------------------------------------------------- the pages of the images

\* String.prototype.toLowerCase, character by character
LowerChar(c) ==
    CASE c = "A" -> "a" [] c = "B" -> "b" [] c = "C" -> "c" [] c = "D" -> "d"
      [] c = "E" -> "e" [] c = "G" -> "g" [] c = "I" -> "i" [] c = "L" -> "l"
      [] c = "N" -> "n" [] c = "O" -> "o" [] c = "P" -> "p" [] c = "R" -> "r"
      [] c = "S" -> "s" [] c = "T" -> "t"
      [] OTHER -> c

ToLowerCase(str) == [i \in DOMAIN str |-> LowerChar(str[i])]

\* the switch on pageSize.toLowerCase(): width and height in points
PageDimensions(pageSize) ==
    LET size == ToLowerCase(pageSize)
    IN CASE size = <<"a", "4">> -> [width |-> 595, height |-> 842]
         [] size = <<"l", "e", "t", "t", "e", "r">> -> [width |-> 612, height |-> 792]
         [] size = <<"l", "e", "g", "a", "l">> -> [width |-> 612, height |-> 1008]
         [] size = <<"a", "3">> -> [width |-> 842, height |-> 1191]
         [] size = <<"a", "5">> -> [width |-> 420, height |-> 595]
         [] OTHER -> [width |-> 595, height |-> 842]

\* a swap that takes only the keyword as spelled in lower case
OrientedExact(dim, orientation) ==
    IF orientation = <<"l", "a", "n", "d", "s", "c", "a", "p", "e">>
    THEN [width |-> dim.height, height |-> dim.width]
    ELSE dim

\* [pageWidth, pageHeight] = [pageHeight, pageWidth] when landscape
Oriented(dim, orientation) ==
    IF ToLowerCase(orientation) = <<"l", "a", "n", "d", "s", "c", "a", "p", "e">>
    THEN [width |-> dim.height, height |-> dim.width]
    ELSE dim

\* the page size of the document imageToPDF creates
PageSize(body) ==
    Oriented(PageDimensions(OrElse(body.pageSize, <<"a", "4">>)),
             OrElse(body.orientation, <<"p", "o", "r", "t", "r", "a", "i", "t">>))

\* what clients send as pageSize and as orientation
SentPageSizes ==
    {NotSent, BodyField(TRUE, <<>>),
     BodyField(TRUE, <<"a", "4">>),
     BodyField(TRUE, <<"l", "e", "t", "t", "e", "r">>),
     BodyField(TRUE, <<"L", "e", "t", "t", "e", "r">>),
     BodyField(TRUE, <<"l", "e", "g", "a", "l">>),
     BodyField(TRUE, <<"L", "E", "G", "A", "L">>),
     BodyField(TRUE, <<"a", "3">>), BodyField(TRUE, <<"A", "5">>),
     BodyField(TRUE, <<"b", "5">>)}

SentOrientations ==
    {NotSent,
     BodyField(TRUE, <<"l", "a", "n", "d", "s", "c", "a", "p", "e">>),
     BodyField(TRUE, <<"L", "a", "n", "d", "S", "C", "A", "P", "E">>),
     BodyField(TRUE, <<"p", "o", "r", "t", "r", "a", "i", "t">>),
     BodyField(TRUE, <<"s", "i", "d", "e">>)}

\* the order fields sent with the images
ImageOrderFields == {<<"0">>, <<"1">>, <<"2">>}

NoDocument ==
    [op |-> "imageToPDF", body |-> [pageSize |-> NotSent, orientation |-> NotSent],
     fields |-> <<>>, images |-> <<>>, pages |-> <<>>, done |-> FALSE,
     totalPages |-> 0, fileCount |-> 0]

\* an image-to-PDF request as it reaches the handler's settings
InitImages ==
    /\ now = 0
    /\ fs = FreshFs
    /\ reqs = [r \in ReqIds |-> NoReq]
    /\ timers = {}
    /\ dl = <<>>
    /\ job = <<>>
    /\ \E n \in 1..MaxFiles : \E f \in [1..n -> ImageOrderFields] :
       \E i \in [1..n -> ImageOutcomes] :
       \E size \in SentPageSizes : \E orientation \in SentOrientations :
           ord = [NoDocument EXCEPT !.body = [pageSize |-> size, orientation |-> orientation],
                                    !.fields = f, !.images = i]

\* imageToPDF: a page of the document's size for every file of orderedFiles
\* whose metadata is read, an entry of imageDetails for every image drawn;
\* details.totalPages is imageDetails.length, fileCount is req.files.length
imagePages ==
    /\ ~ord.done
    /\ LET size == PageSize(ord.body)
           orderedFiles == OrderedFiles(Len(ord.fields), ord.fields)
           files == SelectSeq(orderedFiles, LAMBDA k : ord.images[k] # "meta")
           imageDetails == SelectSeq(orderedFiles, LAMBDA k : ord.images[k] = "drawn")
       IN ord' = [ord EXCEPT !.done = TRUE,
                             !.totalPages = Len(imageDetails),
                             !.fileCount = Len(ord.fields),
                             !.pages = [p \in DOMAIN files |->
                                           [file |-> files[p], width |-> size.width,
                                            height |-> size.height]]]
    /\ UNCHANGED <<now, fs, reqs, timers, dl, job>>

NextImages == imagePages

SpecImages == InitImages /\ [][NextImages]_vars

\* ------------------------------------------------- the sizes of compress

KiB == 1024

HeaderBytes == 1024

\* Math.round(num / den), for den > 0
Round(num, den) == (2 * num + den) \div (2 * den)

\* Math.round(fileStats.size / 1024)
SizeKB(bytes) == Round(bytes, KiB)

\* Math.round((1 - (compressedStats.size / fileStats.size)) * 100): 0/0 is NaN,
\* and a division of a positive size by 0 is Infinity
CompressionRatio(original, compressed) ==
    IF original = 0
    THEN IF compressed = 0 THEN NaN ELSE [ok |-> TRUE, val |-> 0 - (100 * compressed + 1)]
    ELSE [ok |-> TRUE, val |-> Round(100 * (original - compressed), original)]

\* Math.max(0, compressionRatio)
NonNegative(ratio) == IF ratio.ok /\ ratio.val < 0 THEN [ok |-> TRUE, val |-> 0] ELSE ratio

\* the size of the upload in bytes; what pdfDoc.save and the deflate stream
\* return in bytes, -1 when the pass throws
UploadSizes == {0, 2000, 3000}

LibrarySizes == {-1, 1500, 2000}

DeflateSizes == {-1, 100, 1700, 2900}

SentLevels ==
    {NotSent, BodyField(TRUE, <<"low">>), BodyField(TRUE, <<"medium">>),
     BodyField(TRUE, <<"high">>), BodyField(TRUE, <<"High">>)}

NoJob ==
    [size |-> 0, level |-> NotSent, statOk |-> TRUE, copies |-> <<TRUE, TRUE, TRUE>>,
     lib |-> -1, zlib |-> -1, done |-> FALSE, status |-> 0, originalSize |-> 0,
     compressedSize |-> 0, ratio |-> NaN, content |-> "", bytes |-> 0]

\* a PDF-typed upload as it reaches the passes of compressPDF, with what its
\* collaborators will do: stat and readFile of the input, the three
\* copyFile calls, pdf-lib, zlib
InitCompress ==
    /\ now = 0
    /\ fs = FreshFs
    /\ reqs = [r \in ReqIds |-> NoReq]
    /\ timers = {}
    /\ dl = <<>>
    /\ ord = <<>>
    /\ \E size \in UploadSizes : \E level \in SentLevels : \E statOk \in BOOLEAN :
       \E copies \in [1..3 -> BOOLEAN] : \E lib \in LibrarySizes : \E zlib \in DeflateSizes :
           /\ ~statOk => copies = <<FALSE, FALSE, FALSE>>
           /\ size = 0 => lib = -1
           /\ job = [NoJob EXCEPT !.size = size, !.level = level, !.statOk = statOk,
                                  !.copies = copies, !.lib = lib, !.zlib = zlib]

\* res.json of compressPDF: the sizes in KB, the ratio, and what outputPath holds
Compressed(j, original, content, bytes, ratio) ==
    [j EXCEPT !.done = TRUE, !.status = 200, !.originalSize = SizeKB(original),
              !.compressedSize = SizeKB(bytes), !.ratio = ratio,
              !.content = content, !.bytes = bytes]

Zero == [ok |-> TRUE, val |-> 0]

\* the catch blocks: the copy of lines 563 and the copy and stat of lines 590-592
OuterFallback(j) ==
    IF j.copies[3] /\ j.statOk THEN Compressed(j, j.size, "copy", j.size, Zero)
    ELSE [j EXCEPT !.done = TRUE, !.status = 500]

InnerFallback(j) ==
    IF j.copies[2] THEN Compressed(j, j.size, "copy", j.size, Zero)
    ELSE OuterFallback(j)

\* a pass that writes whatever pdf-lib saved, smaller or not
AfterLibraryAlways(j) ==
    IF j.lib >= 0 THEN [content |-> "compacted", bytes |-> j.lib]
    ELSE [content |-> "copy", bytes |-> j.size]

\* outputPath after the pdf-lib pass: the duplicate, replaced when the saved
\* document is smaller
AfterLibrary(j) ==
    IF j.lib >= 0 /\ j.lib < j.size THEN [content |-> "compacted", bytes |-> j.lib]
    ELSE [content |-> "copy", bytes |-> j.size]

\* outputPath after the zlib pass of level 'high': the first 1024 bytes of the
\* current output followed by the deflated data, when that data is below 0.9
\* of the current size
AfterDeflate(j, current) ==
    IF OrElse(j.level, <<"medium">>) = <<"high">> /\ j.zlib >= 0
       /\ 10 * j.zlib < 9 * current.bytes
    THEN [content |-> "deflated",
          bytes |-> (IF current.bytes < HeaderBytes THEN current.bytes ELSE HeaderBytes) + j.zlib]
    ELSE current

compressSizes ==
    /\ ~job.done
    /\ job' = IF ~job.statOk THEN OuterFallback(job)
              ELSE IF ~job.copies[1] THEN InnerFallback(job)
              ELSE LET final == AfterDeflate(job, AfterLibrary(job))
                   IN Compressed(job, job.size, final.content, final.bytes,
                                 NonNegative(CompressionRatio(job.size, final.bytes)))
    /\ UNCHANGED <<now, fs, reqs, timers, dl, ord>>

NextCompress == compressSizes

SpecCompress == InitCompress /\ [][NextCompress]_vars

\* --------------------------------------------- the pages of split and merge

MaxSplitPages == 3

\* the order in which the parts of a request can arrive
Arrivals(n) == {a \in [1..n -> 1..n] : Range(a) = 1..n}

RECURSIVE Concat(_)
Concat(seqs) == IF seqs = <<>> THEN <<>> ELSE Head(seqs) \o Concat(Tail(seqs))

NoMerge == [done |-> FALSE, arrival |-> <<>>, stored |-> <<>>, totalPages |-> 0, pages |-> <<>>]

\* a PDF of pageCount pages, numbered as in the original, as it reaches the
\* loop of splitPDF, with the page steps that will throw and Date.now() at
\* each step
InitSplit ==
    /\ now = 0
    /\ fs = FreshFs
    /\ reqs = [r \in ReqIds |-> NoReq]
    /\ timers = {}
    /\ dl = <<>>
    /\ ord = <<>>
    /\ \E pageCount \in 2..MaxSplitPages : \E fails \in SUBSET (1..pageCount) :
       \E times \in StoreTimes(pageCount) :
           job = [pageCount |-> pageCount, fails |-> fails, times |-> times,
                  done |-> FALSE, status |-> 0, results |-> <<>>, merge |-> NoMerge]

\* a list with an entry for every page of the document, written or not
SplitResultsAll(j) ==
    [i \in 1..j.pageCount |->
        [pageNumber |-> i,
         filename |-> PageName("split-page", i, j.times[i], <<".pdf">>),
         pages |-> <<i>>]]

\* splitResults: one entry per page whose single-page document was written
SplitResults(j) ==
    LET written == SelectSeq([i \in 1..j.pageCount |-> i], LAMBDA i : i \notin j.fails)
    IN [k \in DOMAIN written |->
           [pageNumber |-> written[k],
            filename |-> PageName("split-page", written[k], j.times[written[k]], <<".pdf">>),
            pages |-> <<written[k]>>]]

\* splitPDF from the page loop to the answer
splitPages ==
    /\ ~job.done
    /\ LET splitResults == SplitResults(job)
       IN job' = [job EXCEPT !.done = TRUE, !.results = splitResults,
                             !.status = IF Len(splitResults) = 0 THEN 500 ELSE 200]
    /\ UNCHANGED <<now, fs, reqs, timers, dl, ord>>

\* what mergePDFs reads at the path of part k: the bytes of the last part
\* stored there
ReadAt(paths, contents, k) ==
    LET last == CHOOSE j \in DOMAIN paths :
                    paths[j] = paths[k] /\ \A i \in DOMAIN paths : paths[i] = paths[k] => i <= j
    IN contents[last]

\* the artifacts of a split sent to merge-pdfs in some arrival order, each
\* with its page number as order field: multer stores the parts, mergePDFs
\* orders them and copies the pages of every file it reads
mergeBack ==
    /\ job.done /\ job.status = 200 /\ ~job.merge.done
    /\ LET n == Len(job.results)
       IN /\ n >= 2
          /\ \E arrival \in Arrivals(n) : \E stored \in StoreTimes(n) :
             LET sent == [k \in 1..n |-> job.results[arrival[k]]]
                 fields == [k \in 1..n |-> <<ToString(sent[k].pageNumber)>>]
                 paths == [k \in 1..n |-> StoragePath("pdfs", stored[k], <<".pdf">>)]
                 contents == [k \in 1..n |-> sent[k].pages]
                 orderedFiles == OrderedFiles(n, fields)
                 pages == Concat([i \in 1..n |-> ReadAt(paths, contents, orderedFiles[i])])
             IN job' = [job EXCEPT !.merge = [done |-> TRUE, arrival |-> arrival,
                                               stored |-> stored, totalPages |-> Len(pages),
                                               pages |-> pages]]
    /\ UNCHANGED <<now, fs, reqs, timers, dl, ord>>

NextSplit == splitPages \/ mergeBack

SpecSplit == InitSplit /\ [][NextSplit]_vars

\* ------------------------------------------- the list of merged documents

EndsWith(s, suffix) ==
    Len(suffix) <= Len(s) /\ SubSeq(s, Len(s) - Len(suffix) + 1, Len(s)) = suffix

\* fs.readdir of the callback API: called without a callback it throws
\* ([ok |-> FALSE]) instead of returning the names
CallbackReaddir(f, callback) ==
    IF callback THEN [ok |-> TRUE, files |-> Readdir(f)]
    ELSE [ok |-> FALSE, files |-> {}]

\* the names listMergedPDFs keeps
IsMergedName(file) == EndsWith(file, <<".pdf">>) /\ StartsWith(file, <<"merged", "-">>)

ListEntry(file) == [name |-> file, url |-> <<"/", "uploads", "/">> \o file]

ListAnswer(status, entries) == [handler |-> "list", status |-> status, entries |-> entries]

listMergedPDFs ==
    /\ job = <<>>
    /\ LET files == CallbackReaddir(fs, FALSE)
       IN job' = IF ~files.ok THEN ListAnswer(500, {})
                 ELSE ListAnswer(200, {ListEntry(file) :
                                          file \in {x \in files.files : IsMergedName(x)}})
    /\ UNCHANGED <<now, fs, reqs, timers, dl, ord>>

\* files the store may hold when the list is asked for
ListedArtifacts ==
    {uploadDir \o <<"/", "merged", "-", "0", ".pdf">>,
     uploadDir \o <<"/", "merged", "-", "1", ".pdf">>,
     uploadDir \o <<"/", "merged", "-", "0", ".zip">>,
     uploadDir \o <<"/", "compressed", "-", "0", ".pdf">>,
     uploadDir \o <<"/", "pdfs", "-", "0", ".pdf">>,
     uploadDir \o <<"/", "old", "/", "merged", "-", "0", ".pdf">>}

\* the store when the list is asked for, and the deletion of one of its files
\* that another request or a timer may have under way
InitList ==
    /\ now = 0
    /\ fs \in {[p \in DOMAIN FreshFs \cup S |-> 0] : S \in SUBSET ListedArtifacts}
    /\ reqs = [r \in ReqIds |-> NoReq]
    /\ timers \in {{}} \cup {{Timer(1, 0, {p}, NoTree)} : p \in DOMAIN fs \cap ListedArtifacts}
    /\ dl = <<>>
    /\ job = <<>>
    /\ ord = <<>>

NextList == listMergedPDFs \/ \E t \in timers : TimerFire(t)

SpecList == InitList /\ [][NextList]_vars

\* ------------------------------------- output streams and their listeners

\* One request of imageToPDF or pdfToImage followed through the events of
\* its output stream. n: files or pages sent; left: those still to process;
\* pages: those converted; stream: the write stream of the output; listening:
\* the handler's promise listens to it;
\* settled: how that promise ended; uncaught: errors that reached
\* process.on('uncaughtException'); answers: responses sent.
StreamJob(handler, n, pc, stream, listening, settled, uncaught, answers, status) ==
    [handler |-> handler, n |-> n, left |-> n, pages |-> 0, pc |-> pc, stream |-> stream,
     listening |-> listening, settled |-> settled, uncaught |-> uncaught,
     answers |-> answers, status |-> status]

\* imageToPDF opens its stream before its loop, pdfToImage after it
InitStream ==
    /\ now = 0
    /\ fs = FreshFs
    /\ reqs = [r \in ReqIds |-> NoReq]
    /\ timers = {}
    /\ dl = <<>>
    /\ ord = <<>>
    /\ \E handler \in {"imageToPDF", "pdfToImage"} : \E n \in 1..MaxFiles :
          job = StreamJob(handler, n, "loop",
                          IF handler = "imageToPDF" THEN "open" ELSE "none",
                          FALSE, "pending", 0, 0, 0)

\* one turn of the loop: an await, during which other events are delivered;
\* the file or page is converted, or it fails and is skipped
processOne ==
    /\ job.pc = "loop" /\ job.left > 0
    /\ \E converted \in BOOLEAN :
          job' = [job EXCEPT !.left = @ - 1,
                             !.pages = IF converted THEN @ + 1 ELSE @]
    /\ UNCHANGED <<now, fs, reqs, timers, dl, ord>>

\* after the loop: imageToPDF ends the document and only now listens for
\* 'finish' and 'error'; pdfToImage opens the zip and listens for its 'close'
\* and for the archive's 'error', unless no page was converted, which it throws
awaitStream ==
    /\ job.pc = "loop" /\ job.left = 0
    /\ IF job.handler = "pdfToImage" /\ job.pages = 0
       THEN job' = [job EXCEPT !.pc = "waiting", !.settled = "rejected"]
       ELSE job' = [job EXCEPT !.pc = "waiting", !.listening = TRUE,
                               !.stream = IF job.handler = "pdfToImage" THEN "open" ELSE @]
    /\ UNCHANGED <<now, fs, reqs, timers, dl, ord>>

\* the stream emits 'error'. imageToPDF's promise rejects if it listens by
\* then; otherwise, and for the zip, which has no 'error' listener, the error
\* is thrown to the process, whose handler logs it. The destroyed zip stream
\* then emits 'close', which pdfToImage's promise takes for completion.
streamError ==
    /\ job.stream = "open"
    /\ IF job.handler = "imageToPDF"
       THEN IF job.listening
            THEN job' = [job EXCEPT !.stream = "failed", !.settled = "rejected"]
            ELSE job' = [job EXCEPT !.stream = "failed", !.uncaught = @ + 1]
       ELSE job' = [job EXCEPT !.stream = "failed", !.uncaught = @ + 1,
                               !.settled = "resolved"]
    /\ UNCHANGED <<now, fs, reqs, timers, dl, ord>>

\* the archive emits 'error': pdfToImage's promise rejects
archiveError ==
    /\ job.handler = "pdfToImage" /\ job.stream = "open" /\ job.settled = "pending"
    /\ job' = [job EXCEPT !.settled = "rejected"]
    /\ UNCHANGED <<now, fs, reqs, timers, dl, ord>>

\* everything was written: 'finish', then 'close'
streamFinish ==
    /\ job.stream = "open" /\ job.pc = "waiting" /\ job.settled = "pending"
    /\ job' = [job EXCEPT !.stream = "finished", !.settled = "resolved"]
    /\ UNCHANGED <<now, fs, reqs, timers, dl, ord>>

\* the handler goes on after its promise settled, and answers
answerStream ==
    /\ job.pc = "waiting" /\ job.settled # "pending"
    /\ job' = [job EXCEPT !.pc = "answered", !.answers = @ + 1,
                          !.status = IF job.settled = "resolved" THEN 200 ELSE 500]
    /\ UNCHANGED <<now, fs, reqs, timers, dl, ord>>

NextStream ==
    \/ processOne
    \/ awaitStream
    \/ streamError
    \/ archiveError
    \/ streamFinish
    \/ answerStream

\* the event loop runs what is ready; nothing obliges a stream to fail
SpecStream ==
    /\ InitStream /\ [][NextStream]_vars
    /\ WF_vars(processOne) /\ WF_vars(awaitStream)
    /\ WF_vars(streamFinish) /\ WF_vars(answerStream)

\* ------------------------------------------------- deletions that fail

\* a deletion of the code: the handler it is in, its line, the status of the
\* answer it belongs to, and how it is called: a promise with .catch, a
\* callback (delfile, fs.rm), or either of them in a timer after the answer
CleanupSite(handler, line, status, kind) ==
    [handler |-> handler, line |-> line, status |-> status, kind |-> kind]

CleanupSites ==
    {CleanupSite("merge", 155, 500, "promise"),
     CleanupSite("split", 200, 400, "promise"),
     CleanupSite("split", 219, 400, "promise"),
     CleanupSite("split", 228, 400, "promise"),
     CleanupSite("split", 272, 500, "promise"),
     CleanupSite("split", 284, 200, "timer"),
     CleanupSite("compress", 394, 400, "promise"),
     CleanupSite("compress", 529, 200, "promise"),
     CleanupSite("compress", 542, 200, "promise"),
     CleanupSite("compress", 566, 200, "promise"),
     CleanupSite("compress", 596, 200, "promise"),
     CleanupSite("compress", 610, 500, "promise"),
     CleanupSite("imageToPDF", 648, 400, "promise"),
     CleanupSite("imageToPDF", 805, 200, "promise"),
     CleanupSite("imageToPDF", 827, 500, "promise"),
     CleanupSite("imageToPDF", 835, 500, "promise"),
     CleanupSite("pdfToImage", 876, 400, "promise"),
     CleanupSite("pdfToImage", 907, 400, "promise"),
     CleanupSite("pdfToImage", 916, 400, "promise"),
     CleanupSite("pdfToImage", 1043, 200, "timer"),
     CleanupSite("pdfToImage", 1049, 200, "timer"),
     CleanupSite("pdfToImage", 1053, 200, "timer"),
     CleanupSite("pdfToImage", 1211, 500, "promise"),
     CleanupSite("pdfToImage", 1216, 500, "callback"),
     CleanupSite("protect", 1257, 400, "promise"),
     CleanupSite("protect", 1265, 400, "promise"),
     CleanupSite("protect", 1317, 200, "promise"),
     CleanupSite("protect", 1336, 500, "promise"),
     CleanupSite("protect", 1338, 500, "promise"),
     CleanupSite("protect", 1359, 500, "promise"),
     CleanupSite("unprotect", 1387, 400, "promise"),
     CleanupSite("unprotect", 1395, 400, "promise"),
     CleanupSite("unprotect", 1429, 200, "promise"),
     CleanupSite("unprotect", 1449, 401, "promise"),
     CleanupSite("unprotect", 1449, 500, "promise"),
     CleanupSite("unprotect", 1451, 401, "promise"),
     CleanupSite("unprotect", 1451, 500, "promise"),
     CleanupSite("unprotect", 1480, 500, "promise"),
     CleanupSite("ocr", 18, 200, "callback"),
     CleanupSite("ocr", 23, 500, "callback")}

\* a deletion whose failure is thrown to its caller
BareDeletion(fails) == [removed |-> ~fails, thrown |-> fails]

\* fsp.unlink(p).catch(log), fs.unlink(p, callback), fs.rm(d, options,
\* callback): a failure is logged, or handed to a callback that ignores it
CaughtDeletion(fails) == [removed |-> ~fails, thrown |-> FALSE]

InitCleanup ==
    /\ now = 0
    /\ fs = FreshFs
    /\ reqs = [r \in ReqIds |-> NoReq]
    /\ timers = {}
    /\ dl = <<>>
    /\ ord = <<>>
    /\ \E site \in CleanupSites : \E fails \in BOOLEAN :
          job = [site |-> site, fails |-> fails, phase |-> "start", status |-> 0,
                 removed |-> FALSE, thrown |-> FALSE]

\* the handler deletes before it answers
deleteInHandler ==
    /\ job.phase = "start" /\ job.site.kind # "timer"
    /\ LET deletion == CaughtDeletion(job.fails)
       IN job' = [job EXCEPT !.phase = "deleted", !.removed = deletion.removed,
                             !.thrown = deletion.thrown]
    /\ UNCHANGED <<now, fs, reqs, timers, dl, ord>>

\* the answer: the one of the deletion's branch, or the 500 of the handler's
\* outer catch when the deletion has thrown
answerAfter ==
    /\ \/ job.phase = "deleted"
       \/ job.phase = "start" /\ job.site.kind = "timer"
    /\ job' = [job EXCEPT !.phase = IF job.phase = "deleted" THEN "answered" ELSE "scheduled",
                          !.status = IF job.thrown THEN 500 ELSE job.site.status]
    /\ UNCHANGED <<now, fs, reqs, timers, dl, ord>>

\* the timer deletes after the answer
deleteInTimer ==
    /\ job.phase = "scheduled"
    /\ LET deletion == CaughtDeletion(job.fails)
       IN job' = [job EXCEPT !.phase = "answered", !.removed = deletion.removed,
                             !.thrown = deletion.thrown]
    /\ UNCHANGED <<now, fs, reqs, timers, dl, ord>>

NextCleanup == deleteInHandler \/ answerAfter \/ deleteInTimer

SpecCleanup == InitCleanup /\ [][NextCleanup]_vars

\* --------------------------------------------- an image placed on its page

RECURSIVE Gcd(_, _)
Gcd(a, b) == IF b = 0 THEN a ELSE Gcd(b, a % b)

\* a quotient of two numbers, kept exact and in lowest terms; the denominator
\* is positive
Rat(num, den) ==
    LET g == Gcd(IF num < 0 THEN 0 - num ELSE num, den)
    IN [num |-> num \div g, den |-> den \div g]

RatLeq(a, b) == a.num * b.den <= b.num * a.den

\* quotients in lowest terms are equal when their terms are
RatEq(a, b) == a = b

RatMin(a, b) == IF RatLeq(a, b) THEN a ELSE b

RatSub(a, b) ==
    LET lcm == (a.den \div Gcd(a.den, b.den)) * b.den
    IN Rat(a.num * (lcm \div a.den) - b.num * (lcm \div b.den), lcm)

RatHalf(a) == Rat(a.num, 2 * a.den)

RatTimes(n, a) == Rat(n * a.num, a.den)

\* const margin = 36
Margin == 36

\* a scale that fits the image into the margins, enlarging it when it is small
ScaleToFit(page, w, h) ==
    RatMin(Rat(page.width - Margin * 2, w), Rat(page.height - Margin * 2, h))

\* Math.min(widthRatio, heightRatio, 1)
Scale(page, w, h) ==
    RatMin(RatMin(Rat(page.width - Margin * 2, w), Rat(page.height - Margin * 2, h)),
           Rat(1, 1))

\* where pdfDoc.image draws: x, y, width, height
Placement(page, w, h) ==
    LET scale == Scale(page, w, h)
        scaledWidth == RatTimes(w, scale)
        scaledHeight == RatTimes(h, scale)
    IN [x |-> RatHalf(RatSub(Rat(page.width, 1), scaledWidth)),
        y |-> RatHalf(RatSub(Rat(page.height, 1), scaledHeight)),
        width |-> scaledWidth, height |-> scaledHeight]

\* imageInfo.width, imageInfo.height of the images sent
ImageExtents == {1, 100, 348, 523, 524, 1200}

InitPlace ==
    /\ now = 0
    /\ fs = FreshFs
    /\ reqs = [r \in ReqIds |-> NoReq]
    /\ timers = {}
    /\ dl = <<>>
    /\ ord = <<>>
    /\ \E pageSize \in SentPageSizes : \E orientation \in SentOrientations :
       \E w \in ImageExtents : \E h \in ImageExtents :
          job = [page |-> PageSize([pageSize |-> pageSize, orientation |-> orientation]),
                 w |-> w, h |-> h, drawn |-> FALSE, at |-> <<>>]

placeImage ==
    /\ ~job.drawn
    /\ job' = [job EXCEPT !.drawn = TRUE, !.at = Placement(job.page, job.w, job.h)]
    /\ UNCHANGED <<now, fs, reqs, timers, dl, ord>>

NextPlace == placeImage

SpecPlace == InitPlace /\ [][NextPlace]_vars

\* ------------------------------------- the steps of concurrent protections
\* protectPDF between its awaits, for requests that pass its checks (a PDF, a
\* password): other requests' steps run while one waits for mkdir, for the
\* qpdf subprocess, or for an unlink

\* where the handler of a request stands
Step(pc, inputFile, outputPath, ok, status) ==
    [pc |-> pc, inputFile |-> inputFile, outputPath |-> outputPath, ok |-> ok,
     status |-> status]

NoPath == <<>>

InitSteps ==
    /\ now = 0
    /\ fs = FreshFs
    /\ reqs = [r \in ReqIds |-> NoReq]
    /\ timers = {}
    /\ dl = <<>>
    /\ ord = <<>>
    /\ job = [r \in ReqIds |-> Step("idle", NoPath, NoPath, FALSE, 0)]

\* multer stores the part, then calls the handler
storePart(r) ==
    /\ job[r].pc = "idle"
    /\ LET inputFile == StoragePath(FieldOf("protect"), now, <<".pdf">>)
       IN /\ fs' = WriteAll(fs, {inputFile}, r)
          /\ job' = [job EXCEPT ![r] = Step("stored", inputFile, NoPath, FALSE, 0)]
    /\ UNCHANGED <<now, reqs, timers, dl, ord>>

\* the output path is named after Date.now(); the handler awaits mkdir
nameOutput(r) ==
    /\ job[r].pc = "stored"
    /\ job' = [job EXCEPT ![r] = [@ EXCEPT !.pc = "named",
                                           !.outputPath = OutputPath("protected", now, <<".pdf">>)]]
    /\ UNCHANGED <<now, fs, reqs, timers, dl, ord>>

\* the qpdf subprocess exits: with the output written, or with an error and
\* the output written in part or not at all
qpdfExit(r) ==
    /\ job[r].pc = "named"
    /\ \E ok \in BOOLEAN : \E written \in BOOLEAN :
        /\ ok => written /\ Exists(fs, job[r].inputFile)
        /\ fs' = IF written THEN WriteAll(fs, {job[r].outputPath}, r) ELSE fs
        /\ job' = [job EXCEPT ![r] = [@ EXCEPT !.pc = "exited", !.ok = ok]]
    /\ UNCHANGED <<now, reqs, timers, dl, ord>>

\* await fsp.unlink(inputFile).catch(...), on either path
unlinkInput(r) ==
    /\ job[r].pc = "exited"
    /\ fs' = UnlinkAll(fs, {job[r].inputFile})
    /\ job' = [job EXCEPT ![r] = [@ EXCEPT !.pc = "unlinked"]]
    /\ UNCHANGED <<now, reqs, timers, dl, ord>>

\* await fsp.unlink(outputPath).catch(() => {}), after qpdf failed
unlinkOutput(r) ==
    /\ job[r].pc = "unlinked" /\ ~job[r].ok
    /\ fs' = UnlinkAll(fs, {job[r].outputPath})
    /\ job' = [job EXCEPT ![r] = [@ EXCEPT !.pc = "removed"]]
    /\ UNCHANGED <<now, reqs, timers, dl, ord>>

\* res.json with fullPath and url of the output, or res.status(500)
answerProtect(r) ==
    /\ \/ job[r].pc = "unlinked" /\ job[r].ok
       \/ job[r].pc = "removed"
    /\ job' = [job EXCEPT ![r] = [@ EXCEPT !.pc = "done",
                                           !.status = IF job[r].ok THEN 200 ELSE 500]]
    /\ UNCHANGED <<now, fs, reqs, timers, dl, ord>>

NextSteps ==
    \/ Tick
    \/ \E r \in ReqIds : storePart(r)
    \/ \E r \in ReqIds : nameOutput(r)
    \/ \E r \in ReqIds : qpdfExit(r)
    \/ \E r \in ReqIds : unlinkInput(r)
    \/ \E r \in ReqIds : unlinkOutput(r)
    \/ \E r \in ReqIds : answerProtect(r)

SpecSteps == InitSteps /\ [][NextSteps]_vars

\* ================================================================ properties

Done(r) == reqs[r].phase = "done"

\* the file lies inside the upload root: below the directory, not beside it
InsideRoot(p) == StartsWith(p, uploadDir \o <<"/">>) /\ Len(p) > Len(uploadDir) + 1

\* ------------------------------------------------------------------------ C1
\* C1: every file downloadFile streams lies inside the upload root: a
\* reference that points outside it is answered with the same-named file
\* directly inside the root or with 404, never with a file outside.
C1_StreamsOnlyInsideRoot ==
    dl # <<>> /\ dl.status = 200 => InsideRoot(dl.served)

\* ------------------------------------------------------------------------ C2
\* C2: a merge that fails because a part cannot be read or parsed is answered
\* 500, leaves no output of the request in the store, and has removed every
\* one of the request's uploaded inputs when the answer is sent.
C2_FailedMergeRemovesInputs ==
    \A r \in ReqIds :
        Done(r) /\ reqs[r].op = "merge" /\ reqs[r].reason \in {"read", "load", "empty"}
            => /\ reqs[r].status = 500
               /\ reqs[r].outs = {}
               /\ reqs[r].left = {}

\* ------------------------------------------------------------------------ C3
\* C3: whatever the outcome, a request that passed the presence check has none
\* of its uploaded inputs left in the store when its answer is sent.
C3_NoInputLeftAtAnswer ==
    \A r \in ReqIds : Done(r) /\ reqs[r].reason # "presence" => reqs[r].left = {}

\* ------------------------------------------------------------------------ C4
\* C4: a request rejected for a part of the wrong MIME type has every one of
\* its uploaded parts deleted when the rejection is sent.
C4_MimeRejectionDeletesParts ==
    \A r \in ReqIds : Done(r) /\ reqs[r].reason = "mime" => reqs[r].left = {}

\* ------------------------------------------------------------------------ C5
\* C5: a validation error (missing file, wrong MIME type, missing password) is
\* answered 400 and no processing of the inputs has taken place; a merge with a
\* non-PDF part is therefore answered 400, not 500.
C5_ValidationAnswers400 ==
    \A r \in ReqIds :
        Done(r) /\ reqs[r].reason \in {"presence", "mime", "password"}
            => reqs[r].status = 400 /\ ~reqs[r].worked

\* ------------------------------------------------------------------------ C6
\* C6: the output a successful merge, compress, protect, unprotect or
\* image-to-PDF request returned is never deleted afterwards, by any handler or
\* timer, in any interleaving of requests.
RetainedOps == {"merge", "compress", "protect", "unprotect", "imageToPDF"}

C6_RetainedOutputsStay ==
    \A r \in ReqIds :
        Done(r) /\ reqs[r].status = 200 /\ reqs[r].op \in RetainedOps
            => \A p \in reqs[r].outs : Exists(fs, p)

\* ------------------------------------------------------------------------ C7
\* C7: after a successful split a deletion of its page files is due one hour
\* later, and after a successful PDF-to-image request, raster or text-only, a
\* deletion of its batch directory and archive is due 24 hours later: as long
\* as such an artifact is in the store, the timer that removes it is pending.
Covers(t, p) == p \in t.files \/ (t.tree # NoTree /\ StartsWith(p, DirEntry(t.tree)))

DeletionDelay(op) == IF op = "split" THEN HourMs ELSE DayMs

C7_DeletionScheduled ==
    \A r \in ReqIds :
        Done(r) /\ reqs[r].status = 200 /\ reqs[r].op \in {"split", "pdfToImage"}
            => \A p \in reqs[r].outs :
                   Exists(fs, p) =>
                       \E t \in timers : t.delay = DeletionDelay(reqs[r].op) /\ Covers(t, p)

\* ------------------------------------------------------------------------ C8
\* C8: two distinct requests never generate the same output file or directory
\* name, so neither overwrites the other's output.
C8_DistinctOutputNames ==
    \A r1, r2 \in ReqIds :
        r1 # r2 /\ Done(r1) /\ Done(r2) /\ reqs[r1].status = 200 /\ reqs[r2].status = 200
            => reqs[r1].outs \cap reqs[r2].outs = {}

\* ------------------------------------------------------------------------ C9
\* C9: upload intake gives every stored part its own path: two parts never
\* receive the same one, within a request or across requests, even with the
\* same field name and extension in the same millisecond.
C9_DistinctStoragePaths ==
    \A r1, r2 \in ReqIds : \A k1 \in DOMAIN reqs[r1].files : \A k2 \in DOMAIN reqs[r2].files :
        <<r1, k1>> # <<r2, k2>> => reqs[r1].files[k1].path # reqs[r2].files[k2].path

\* ----------------------------------------------------------------------- C10
\* the files that add pages: all of a merge, the drawn ones of image-to-PDF
Contributors(o) ==
    IF o.op = "merge" THEN DOMAIN o.fields
    ELSE {k \in DOMAIN o.fields : o.images[k] = "drawn"}

IsArrangement(pages, files) == Len(pages) = Cardinality(files) /\ Range(pages) = files

\* the numeral at the start of a field: blanks, an optional sign, then decimal
\* digits, or 0x and hexadecimal digits; len is the number of digits read
LeadingNumeral(field) ==
    LET blanks == {i \in 0..Len(field) : \A j \in 1..i : field[j] = " "}
        text == SubSeq(field, 1 + CHOOSE i \in blanks : \A j \in blanks : j <= i, Len(field))
        signed == text # <<>> /\ text[1] \in {"-", "+"}
        body == IF signed THEN SubSeq(text, 2, Len(text)) ELSE text
        hex == Len(body) >= 2 /\ body[1] = "0" /\ body[2] \in {"x", "X"}
        radix == IF hex THEN 16 ELSE 10
        digits == IF hex THEN SubSeq(body, 3, Len(body)) ELSE body
        runs == {i \in 0..Len(digits) : \A j \in 1..i : DigitVal(digits[j]) < radix}
        len == CHOOSE i \in runs : \A j \in runs : j <= i
        value[i \in 0..len] == IF i = 0 THEN 0 ELSE value[i - 1] * radix + DigitVal(digits[i])
    IN [len |-> len, val |-> IF signed /\ text[1] = "-" THEN 0 - value[len] ELSE value[len]]

\* the index of the file at arrival position k (from 1): the numeral at the
\* start of its field, the position counted from 0 when there is none
NumeralIndex(k, field) ==
    IF LeadingNumeral(field).len > 0 THEN LeadingNumeral(field).val ELSE k - 1

\* the index as read from a field that must be an integer as a whole
WholeIndex(k, field) ==
    LET digits == IF field # <<>> /\ Head(field) \in {"-", "+"} THEN Tail(field) ELSE field
        whole == digits # <<>> /\ \A i \in DOMAIN digits : DigitVal(digits[i]) < 10
    IN IF whole THEN LeadingNumeral(field).val ELSE k - 1

\* C10 (amended): the inputs of merge and image-to-PDF add their pages in
\* ascending order of their index, inputs of equal index in arrival order; the
\* index of the k-th file is the numeral at the start of field order_k
\* (parseInt), and k only when the field is absent or starts with no numeral.
C10_PagesFollowParsedIndex ==
    ord.done =>
        /\ IsArrangement(ord.pages, Contributors(ord))
        /\ \A i, j \in DOMAIN ord.pages :
               i < j =>
                   LET a == NumeralIndex(ord.pages[i], ord.fields[ord.pages[i]])
                       b == NumeralIndex(ord.pages[j], ord.fields[ord.pages[j]])
                   IN a < b \/ (a = b /\ ord.pages[i] < ord.pages[j])

\* C10 as stated: the pages follow the ascending order of an index that is
\* the integer in field order_k, and k when the field is absent or is not an
\* integer.
C10_PagesFollowIntegerField ==
    ord.done =>
        /\ IsArrangement(ord.pages, Contributors(ord))
        /\ \A i, j \in DOMAIN ord.pages :
               i < j => WholeIndex(ord.pages[i], ord.fields[ord.pages[i]])
                            <= WholeIndex(ord.pages[j], ord.fields[ord.pages[j]])

\* C10 witness: a merge whose fields reverse the arrival order of two files,
\* one by its leading numeral and one by the fallback
C10_ReorderedMerge ==
    /\ ord.done /\ ord.op = "merge"
    /\ ord.fields = <<<<"2", "a">>, Undefined>>
    /\ ord.pages = <<2, 1>>

\* ----------------------------------------------------------------------- C11
\* the scenario: images 0, 1 and 2 (arrival positions 1, 2, 3) sent with order
\* indices 2, 0, 1, pageSize letter, orientation landscape, every image readable
C11_Scenario ==
    /\ ord.op = "imageToPDF" /\ "body" \in DOMAIN ord
    /\ ord.fields = <<<<"2">>, <<"0">>, <<"1">>>>
    /\ ord.images = <<"drawn", "drawn", "drawn">>
    /\ ord.body.pageSize = BodyField(TRUE, <<"l", "e", "t", "t", "e", "r">>)
    /\ ord.body.orientation = BodyField(TRUE, <<"l", "a", "n", "d", "s", "c", "a", "p", "e">>)

LandscapeLetter(k) == [file |-> k, width |-> 792, height |-> 612]

\* C11 (amended): in the scenario the output has 3 pages of 792x612 points,
\* in ascending order of the order indices: image_1, image_2, image_0.
C11_PagesInIndexOrder ==
    C11_Scenario /\ ord.done
        => ord.pages = <<LandscapeLetter(2), LandscapeLetter(3), LandscapeLetter(1)>>

\* C11 as stated: in the scenario the output has 3 pages of 792x612 points in
\* the order the images were sent: image_0, image_1, image_2.
C11_PagesInInputOrder ==
    C11_Scenario /\ ord.done
        => ord.pages = <<LandscapeLetter(1), LandscapeLetter(2), LandscapeLetter(3)>>

\* C11 witness: the scenario's request, answered
C11_ScenarioAnswered == C11_Scenario /\ ord.done /\ Len(ord.pages) = 3

\* ----------------------------------------------------------------------- C12
Capital(c) ==
    CASE c = "a" -> "A" [] c = "c" -> "C" [] c = "d" -> "D" [] c = "e" -> "E"
      [] c = "g" -> "G" [] c = "l" -> "L" [] c = "n" -> "N" [] c = "p" -> "P"
      [] c = "r" -> "R" [] c = "s" -> "S" [] c = "t" -> "T"
      [] OTHER -> c

\* the text spells the keyword, in any mix of cases
Spells(text, word) ==
    Len(text) = Len(word) /\ \A i \in DOMAIN word : text[i] \in {word[i], Capital(word[i])}

\* the documented sizes, width x height in points
SizeTable ==
    {[word |-> <<"a", "4">>, width |-> 595, height |-> 842],
     [word |-> <<"l", "e", "t", "t", "e", "r">>, width |-> 612, height |-> 792],
     [word |-> <<"l", "e", "g", "a", "l">>, width |-> 612, height |-> 1008],
     [word |-> <<"a", "3">>, width |-> 842, height |-> 1191],
     [word |-> <<"a", "5">>, width |-> 420, height |-> 595]}

DocumentedSize(body) ==
    LET known == {e \in SizeTable : body.pageSize.sent /\ Spells(body.pageSize.text, e.word)}
        entry == IF known = {} THEN CHOOSE e \in SizeTable : e.word = <<"a", "4">>
                 ELSE CHOOSE e \in known : TRUE
        landscape == body.orientation.sent
                     /\ Spells(body.orientation.text, <<"l", "a", "n", "d", "s", "c", "a", "p", "e">>)
    IN IF landscape THEN [width |-> entry.height, height |-> entry.width]
       ELSE [width |-> entry.width, height |-> entry.height]

\* C12: every page of an image-to-PDF output has the documented size of the
\* pageSize keyword (matched in any case; a4 for any other or missing
\* keyword), width and height swapped exactly when orientation is landscape
\* (in any case).
C12_PagesHaveDocumentedSize ==
    ord.done /\ "body" \in DOMAIN ord
        => \A p \in DOMAIN ord.pages :
               /\ ord.pages[p].width = DocumentedSize(ord.body).width
               /\ ord.pages[p].height = DocumentedSize(ord.body).height

\* C12 witness: a document of legal pages in landscape, both keywords sent in
\* capitals, with a page of 1008x612
C12_LegalLandscapePage ==
    /\ ord.done /\ "body" \in DOMAIN ord
    /\ ord.body.pageSize.text = <<"L", "E", "G", "A", "L">>
    /\ ord.body.orientation.text = <<"L", "a", "n", "d", "S", "C", "A", "P", "E">>
    /\ ord.pages # <<>>
    /\ ord.pages[1].width = 1008 /\ ord.pages[1].height = 612

\* ----------------------------------------------------------------------- C13
\* C13: in every success response of compress the reported compressedSize is
\* at most the reported originalSize, and the reported compressionRatio is 0
\* whenever the output is not smaller than the input.
C13_ReportedSizeNeverGrows ==
    job # <<>> /\ job.done /\ job.status = 200
        => /\ job.compressedSize <= job.originalSize
           /\ job.bytes >= job.size => job.ratio = Zero

\* ----------------------------------------------------------------------- C14
\* the passes were reached and the library pass threw, or the byte-level pass
\* ran and threw
PassesFailed(j) ==
    /\ j.statOk /\ j.copies[1]
    /\ j.lib = -1 \/ (OrElse(j.level, <<"medium">>) = <<"high">> /\ j.zlib = -1)

NothingAdopted(j) ==
    /\ j.lib = -1 \/ j.lib >= j.size
    /\ \/ OrElse(j.level, <<"medium">>) # <<"high">>
       \/ j.zlib = -1
       \/ 10 * j.zlib >= 9 * j.size

C15_OnePageSplitRejected ==
    \A r \in ReqIds :
        Done(r) /\ reqs[r].op = "split" /\ reqs[r].reason = "pages"
            => /\ reqs[r].status = 400
               /\ reqs[r].outs = {}
               /\ reqs[r].left = {}
               /\ \A p \in DOMAIN fs : fs[p] = r => p \in Paths(reqs[r].files)

\* C15 witness: a split answered 400 for its page count, its input gone
C15_OnePageSplitAnswered ==
    \E r \in ReqIds :
        /\ Done(r) /\ reqs[r].op = "split" /\ reqs[r].reason = "pages"
        /\ reqs[r].status = 400
        /\ \A p \in Paths(reqs[r].files) : ~Exists(fs, p)

\* ----------------------------------------------------------------------- C16
Listed(j) == {j.results[k].pageNumber : k \in DOMAIN j.results}

\* C16: a success response of split lists exactly the pages whose document
\* was written, in ascending page number and under distinct filenames: all of
\* 1..N when no page step fails, and the pages that succeeded when some but
\* not all fail, which is still a success.
C16_SplitListsWrittenPages ==
    job # <<>> /\ job.done
        => /\ job.fails # 1..job.pageCount => job.status = 200
           /\ job.status = 200 =>
                  /\ Listed(job) = (1..job.pageCount) \ job.fails
                  /\ \A k, l \in DOMAIN job.results :
                         k < l => /\ job.results[k].pageNumber < job.results[l].pageNumber
                                  /\ job.results[k].filename # job.results[l].filename
                  /\ job.fails = {} => Len(job.results) = job.pageCount

\* C16 witness: three pages, the second fails, the answer is a success
\* listing pages 1 and 3
C16_PartialSplit ==
    /\ job # <<>> /\ job.done /\ job.status = 200
    /\ job.pageCount = 3 /\ job.fails = {2}
    /\ Len(job.results) = 2
    /\ job.results[1].pageNumber = 1 /\ job.results[2].pageNumber = 3

\* ----------------------------------------------------------------------- C17
\* C17: merging the N artifacts of a fully successful split of an N-page PDF,
\* each sent with its page number as order index, yields an output of N pages
\* whose page sequence is that of the original.
C17_SplitThenMergeIsIdentity ==
    job # <<>> /\ job.merge.done /\ job.fails = {}
        => /\ job.merge.totalPages = job.pageCount
           /\ job.merge.pages = [i \in 1..job.pageCount |-> i]

\* ---- protect and unprotect ----

QpdfOps == {"protect", "unprotect"}

\* the reasons of an answer given after the subprocess failed
QpdfFailures == {"qpdf-error", "qpdf-password"}

\* the step in which the handler of request r answers
Answers(r) == reqs[r].phase = "uploaded" /\ reqs'[r].phase = "done"

\* the output path the handler of op computes at time t
OutputOf(op, t) ==
    OutputPath(IF op = "protect" THEN "protected" ELSE "unprotected", t, <<".pdf">>)

\* C18, as the spec states it: for protect and for unprotect alike, a
\* subprocess failure whose diagnostic mentions the password is answered 401
\* and every other subprocess failure is answered 500.
C18_PasswordFailureAnswers401 ==
    \A r \in ReqIds :
        Done(r) /\ reqs[r].op \in QpdfOps =>
            /\ reqs[r].reason = "qpdf-password" => reqs[r].status = 401
            /\ reqs[r].reason = "qpdf-error" => reqs[r].status = 500

\* what the handler's step does to a request with a PDF and no usable password
\* (400, no subprocess, nothing new in the store, the input gone), and to a
\* request without a file (400, the store as it was)
RejectsBeforeQpdf(r) ==
    LET files == reqs[r].files
    IN /\ (Len(files) = 1 /\ IsPdf(files[1]) /\ reqs[r].password \in
                {NotSent, BodyField(TRUE, <<>>)}) =>
             /\ reqs'[r].status = 400
             /\ ~reqs'[r].worked
             /\ reqs'[r].outs = {}
             /\ ~Exists(fs', files[1].path)
             /\ \A p \in DOMAIN fs' : Exists(fs, p) /\ fs'[p] = fs[p]
       /\ Len(files) = 0 =>
             /\ reqs'[r].status = 400
             /\ fs' = fs

\* C19: a protect or unprotect request with a PDF but a missing or empty
\* password is answered 400 without the subprocess being run, with no output
\* artifact created and with the uploaded input deleted; a request without a
\* file is answered 400 and leaves the store unchanged.
C19_MissingPasswordRejected ==
    [][\A r \in ReqIds : Answers(r) /\ reqs[r].op \in QpdfOps => RejectsBeforeQpdf(r)]_vars

\* C19's case: a PDF sent with an empty password has been answered
C19_EmptyPasswordAnswered ==
    \E r \in ReqIds :
        /\ Done(r) /\ reqs[r].op \in QpdfOps
        /\ Len(reqs[r].files) = 1 /\ IsPdf(reqs[r].files[1])
        /\ reqs[r].password = BodyField(TRUE, <<>>)
        /\ reqs[r].status = 400

\* what the handler's step does when the subprocess fails (an error answer,
\* no file at the output path, the input gone), and what a success answer
\* implies (the subprocess ran and did not fail, and its output is there)
AllOrNothing(r) ==
    LET outputPath == OutputOf(reqs[r].op, now)
    IN /\ reqs'[r].reason \in QpdfFailures =>
             /\ reqs'[r].status >= 400
             /\ ~Exists(fs', outputPath)
             /\ \A p \in Paths(reqs[r].files) : ~Exists(fs', p)
       /\ reqs'[r].status = 200 =>
             /\ reqs'[r].worked
             /\ reqs'[r].reason \notin QpdfFailures
             /\ reqs'[r].outs = {outputPath}
             /\ Exists(fs', outputPath)
             /\ \A p \in Paths(reqs[r].files) : p # outputPath => ~Exists(fs', p)

ReferenceOf(q) == IF q.sent THEN DecodeURIComponent(q.file).val ELSE <<>>

\* the file a reference resolves to, directly or by the basename scan, or
\* NoFile when neither is readable
ResolvedFile(f, filePath) ==
    LET direct == ResolveReference(filePath)
        scanned == FallbackScan(f, filePath, direct)
    IN IF Accessible(f, direct) THEN direct
       ELSE IF Accessible(f, scanned) THEN scanned
       ELSE NoFile

\* C21, as the spec states it: a download whose file parameter is missing or
\* empty is answered 400 and streams nothing; one whose reference resolves to
\* no readable file is answered 404; every other one streams the resolved file.
C21_DownloadAnswers ==
    dl # <<>> =>
        IF ~dl.query.sent \/ dl.query.file = <<>>
        THEN dl.status = 400 /\ dl.served = NoFile
        ELSE IF ResolvedFile(fs, ReferenceOf(dl.query)) = NoFile
        THEN dl.status = 404 /\ dl.served = NoFile
        ELSE dl.status = 200 /\ dl.served = ResolvedFile(fs, ReferenceOf(dl.query))

\* C22: a download changes nothing in the store, and a download of the
\* reference just downloaded is answered with the same file, whose content is
\* what it was.
C22_DownloadLeavesStore ==
    [][/\ fs' = fs
       /\ (dl # <<>> /\ dl' # <<>> /\ dl'.query = dl.query) =>
              /\ dl'.status = dl.status
              /\ dl'.served = dl.served]_vars

\* C22's case: a download has streamed a file that the store holds
C22_FileStreamed == dl # <<>> /\ dl.status = 200 /\ Exists(fs, dl.served)

\* ---- the list of merged documents ----

\* the files directly in the upload root that are merge outputs by their name
MergedInRoot ==
    {file \in Readdir(fs) : Exists(fs, Join(uploadDir, file))
                            /\ StartsWith(file, <<"merged", "-">>)
                            /\ Last(file) = ".pdf"}

\* C23, as the spec states it: the list is answered 200 with exactly one entry
\* for each file directly in the upload root whose name starts with 'merged-'
\* and ends with '.pdf', with url '/uploads/<name>', and no other entry.
C23_ListHoldsMergedFiles ==
    job # <<>> =>
        /\ job.status = 200
        /\ job.entries = {[name |-> file, url |-> <<"/", "uploads", "/">> \o file] :
                             file \in MergedInRoot}

\* ---- batches of page images ----

\* the timestamps a batch can carry
BatchTimes == 0..MaxTime

BatchDirOf(t) == Join(uploadDir, <<"pdf-images", "-", ToString(t)>>)

BatchZipOf(t) == Join(uploadDir, <<"pdf-images", "-", ToString(t), ".zip">>)

\* p is a page image of batch t: under its directory, with t in its filename
IsBatchPage(p, t) ==
    \E i \in 1..MaxPages : \E ext \in {".png", ".jpg", ".jpeg", ".webp"} :
        p = BatchDirOf(t) \o <<"/", "page", "-", ToString(i), "-", ToString(t), ext>>

\* C24, as the spec states it: the page images of a batch with timestamp t lie
\* under pdf-images-<t> with t in their names, and the batch directory and the
\* zip pdf-images-<t>.zip leave the store together: the store never holds the
\* zip without the directory, nor the directory without the zip unless the
\* removal of the directory is under way.
C24_BatchAndZipTogether ==
    /\ \A r \in ReqIds :
          Done(r) /\ reqs[r].op = "pdfToImage" /\ reqs[r].status = 200 =>
              \E t \in BatchTimes :
                  \A p \in reqs[r].outs : p = BatchZipOf(t) \/ IsBatchPage(p, t)
    /\ \A t \in BatchTimes :
          /\ Exists(fs, BatchZipOf(t)) => Exists(fs, DirEntry(BatchDirOf(t)))
          /\ Exists(fs, DirEntry(BatchDirOf(t))) /\ ~Exists(fs, BatchZipOf(t)) =>
                 \E tm \in timers : tm.tree = BatchDirOf(t)

\* ---- whose files a cleanup removes ----

\* request r created the file at p of store f, or uploaded a part to p
OwnFile(f, r, p) == f[p] = r \/ p \in Paths(reqs[r].files)

\* C25, as the spec states it: under any interleaving of requests and timers,
\* every file removed by a handler's step or by a timer was created or
\* uploaded by the request the handler answers or the timer belongs to.
C25_DeletesOnlyOwnFiles ==
    [][\A p \in DOMAIN fs \ DOMAIN fs' :
          \/ \E r \in ReqIds : Answers(r) /\ OwnFile(fs, r, p)
          \/ \E t \in timers \ timers' : OwnFile(fs, t.by, p)]_vars

\* ---- what a failed request leaves ----

\* the files request r has written and the store f still holds, other than
\* its uploaded parts and than those whose removal, started by the handler,
\* is under way in tms
Leftovers(f, tms, r) ==
    {p \in DOMAIN f : /\ f[p] = r
                      /\ p \notin Paths(reqs[r].files)
                      /\ ~\E t \in tms : t.by = r /\ t.delay = 0 /\ Covers(t, p)}

\* C26, as the spec states it: when a handler answers 500, every intermediate
\* or output file the request had written (output PDF, page images, batch
\* directory, zip, temp file) has been deleted.
C26_FailureLeavesNothing ==
    [][\A r \in ReqIds :
          Answers(r) /\ reqs'[r].status = 500 => Leftovers(fs', timers', r) = {}]_vars

\* ---- every request is answered ----

\* C27, as the spec states it: every request is eventually answered, exactly
\* once, whatever step fails, a failing output stream of image-to-PDF or of
\* the zip of PDF-to-image included.
C27_EveryRequestAnswered == <>(job.answers = 1) /\ [](job.answers <= 1)

\* ---- deletions that fail ----

\* C28: a cleanup deletion that fails, in a handler, in delfile or in a timer,
\* changes nothing in the answer and is not thrown: the status is the one
\* answered when the deletion succeeds.
C28_FailedDeletionIsSilent ==
    /\ ~job.thrown
    /\ job.phase \in {"answered", "scheduled"} => job.status = job.site.status

\* C28's case: a deletion has failed and its request is answered
C28_DeletionFailed == job.phase = "answered" /\ job.fails /\ ~job.removed

\* ---- the presence check ----

\* the request lacks what its handler requires: two files for merge, one for
\* every other handler
PresenceFails(r) ==
    IF reqs[r].op = "merge" THEN Len(reqs[r].files) < 2 ELSE Len(reqs[r].files) = 0

\* C29: when the presence check fails the handler answers 400, runs no
\* collaborator, and creates or modifies nothing in the store.
C29_PresenceFailureTouchesNothing ==
    [][\A r \in ReqIds :
          Answers(r) /\ PresenceFails(r) =>
              /\ reqs'[r].status = 400
              /\ ~reqs'[r].worked
              /\ reqs'[r].outs = {}
              /\ fs' = fs
              /\ timers' = timers]_vars

\* C29's case: a merge request with a single file has been answered
C29_SingleFileMergeAnswered ==
    \E r \in ReqIds :
        Done(r) /\ reqs[r].op = "merge" /\ Len(reqs[r].files) = 1 /\ reqs[r].status = 400

\* ---- how a download resolves its reference ----

\* the path the spec resolves a reference to, before any file is looked up
DocumentedPath(filePath) ==
    IF IsAbsolute(filePath)
    THEN IF InsideRoot(Normalize(filePath)) THEN Normalize(filePath)
         ELSE Join(uploadDir, Basename(filePath))
    ELSE Join(uploadDir, filePath)

\* the file the spec serves for a reference: the resolved path when readable,
\* else the direct entry of the root named like the reference's basename
DocumentedFile(f, filePath) ==
    IF Accessible(f, DocumentedPath(filePath)) THEN DocumentedPath(filePath)
    ELSE IF Basename(filePath) \in Readdir(f) THEN Join(uploadDir, Basename(filePath))
    ELSE NoFile

\* C30, as the spec states it: an absolute reference inside the upload root is
\* used as is, one outside is replaced by its basename joined to the root, a
\* relative one is joined to the root; when that path is not readable the
\* direct entry of the root with the reference's basename is served if there
\* is one, and otherwise nothing is served. Stated of the downloads that
\* stream a file: the file streamed is the one so resolved.
C30_ResolutionAsDocumented ==
    (dl # <<>> /\ dl.query.sent /\ DecodeURIComponent(dl.query.file).ok
        /\ DecodeURIComponent(dl.query.file).val # <<>>) =>
        LET file == DocumentedFile(fs, DecodeURIComponent(dl.query.file).val)
        IN dl.status = 200 => dl.served = file

\* ---- the byte-level pass of compress ----

\* C31, as the spec states it: the byte-level pass runs only for level 'high',
\* and after it the output is what it was before the pass or at least 10%
\* smaller than it was before the pass.
C31_DeflateShavesTenPercent ==
    (job # <<>> /\ job.done /\ job.status = 200 /\ job.statOk /\ job.copies[1]) =>
        LET before == AfterLibrary(job)
        IN /\ job.level # BodyField(TRUE, <<"high">>) =>
                  job.content = before.content /\ job.bytes = before.bytes
           /\ \/ job.content = before.content /\ job.bytes = before.bytes
              \/ 10 * job.bytes <= 9 * before.bytes

\* ---- a split of which no page succeeds ----

\* the files of request r in store f that are not its uploaded parts
WrittenBy(f, r) == {p \in DOMAIN f : f[p] = r /\ p \notin Paths(reqs[r].files)}

\* C32, as the spec states it: when every per-page step of split fails, split
\* answers 500 and has deleted the uploaded input and every file it wrote,
\* and schedules no timer; a success response schedules exactly one.
C32_TotalSplitFailureCleansUp ==
    [][\A r \in ReqIds :
          Answers(r) /\ reqs[r].op = "split" =>
              /\ reqs'[r].reason = "none" =>
                    /\ reqs'[r].status = 500
                    /\ \A p \in Paths(reqs[r].files) : ~Exists(fs', p)
                    /\ WrittenBy(fs', r) = {}
                    /\ timers' = timers
              /\ reqs'[r].status = 200 => Cardinality(timers' \ timers) = 1
              /\ reqs'[r].status # 200 => timers' = timers]_vars

\* ---- an image placed on its page ----

BeingDeleted == UNION {t.files : t \in timers}

\* C34, as the spec states it: a list asked for while another request or a
\* timer deletes a merged file is answered 200, with an entry for every merged
\* file that is not being deleted and for no file that is not in the root.
C34_ListToleratesDeletion ==
    [][(job = <<>> /\ job' # <<>> /\ timers # {}) =>
          /\ job'.status = 200
          /\ job'.entries \subseteq {ListEntry(file) : file \in MergedInRoot}
          /\ \A file \in MergedInRoot :
                Join(uploadDir, file) \notin BeingDeleted => ListEntry(file) \in job'.entries]_vars

\* ---- the images a conversion lists ----

\* C35, as the spec states it: a success response of PDF-to-image lists at
\* most one image per page number, each naming a file of its own, also when
\* the raster path had produced page images before the fallback ran.
C35_OneImagePerPage ==
    \A r \in ReqIds :
        Done(r) /\ reqs[r].op = "pdfToImage" /\ reqs[r].status = 200 =>
            \A i, k \in DOMAIN reqs[r].order :
                reqs[r].order[i] = reqs[r].order[k] => i = k

\* ---- the page count an image conversion reports ----

\* C36, as the spec states it: the totalPages an image-to-PDF success
\* response reports is the number of pages of the generated document, also
\* when an image fails after its page was added, and fileCount is the number
\* of uploaded images.
C36_ReportedPagesAreThePages ==
    ord.done /\ "body" \in DOMAIN ord
        => /\ ord.totalPages = Len(ord.pages)
           /\ ord.fileCount = Len(ord.fields)

\* ---- the artifacts an answer refers to ----

\* C37, as the spec states it: every artifact a success response refers to
\* exists in the store at the moment the response is sent, whatever other
\* requests write or clean up in between.
C37_ReferencedArtifactExists ==
    [][\A r \in ReqIds :
           job[r].pc # "done" /\ job'[r].pc = "done" /\ job'[r].status = 200
               => Exists(fs', job'[r].outputPath)]_vars

\* ---- the intermediate of the byte-level pass ----

\* temp-<timestamp>.bin in the upload directory
IsTempBin(p) == \E t \in 0..MaxTime : p = OutputPath("temp", t, <<".bin">>)

\* C38, as the spec states it: once a compress request is answered, no
\* temp-<timestamp>.bin it created remains in the store, whether the
\* byte-level pass was adopted, rejected or failed part-way.
C38_NoIntermediateRemains ==
    \A r \in ReqIds :
        Done(r) /\ reqs[r].op = "compress"
            => ~\E p \in DOMAIN fs : IsTempBin(p) /\ fs[p] = r

====
